---- MODULE Spec2Model ----
(***************************************************************************)
(* Knowledge-tile persistence and retrieval core of nullai-app:            *)
(*   - LRUCache            (src/hot_cache.py)                              *)
(*   - IathEncoder/Decoder (src/iath_encoder.py, src/iath_decoder.py)      *)
(*   - IathDBInterface     (src/backend/iath_db_interface.py)              *)
(* Python values are modelled as follows: a str is a sequence of code      *)
(* points, a bytes object is a sequence of integers 0..255, an OrderedDict *)
(* or dict is a sequence of [k, v] records in insertion order, None is the *)
(* model value None.                                                       *)
(***************************************************************************)
EXTENDS Integers, Sequences, FiniteSets, TLC

\* Optional values: None, or Some(v)
None == <<>>

Some(v) == <<v>>

(***************************************************************************)
(* bytes, struct and str                                                   *)
(***************************************************************************)
Min(a, b) == IF a <= b THEN a ELSE b

\* buffer[a:b] for 0 <= a, 0 <= b: the slice is clipped to the buffer
Slice(buf, a, b) == SubSeq(buf, a + 1, Min(b, Len(buf)))

\* what an operation that may raise yields: ok, or the exception raised
Ok(v) == [ok |-> TRUE, val |-> v]

Raise(e) == [ok |-> FALSE, val |-> e]

\* struct.pack("<I" / "<Q", n), n >= 0: w bytes, least significant first
RECURSIVE PackLE(_, _)
PackLE(n, w) ==
    IF w = 0 THEN <<>> ELSE <<n % 256>> \o PackLE(n \div 256, w - 1)

\* the value of little-endian bytes b[i..j]
RECURSIVE ValueLE(_, _, _)
ValueLE(b, i, j) == IF i > j THEN 0 ELSE b[i] + 256 * ValueLE(b, i + 1, j)

\* struct.unpack("<I", b): struct.error unless b has 4 bytes
UnpackU32(b) == IF Len(b) # 4 THEN Raise("struct.error") ELSE Ok(ValueLE(b, 1, 4))

\* bytes.find(b'\0', offset): the index of the first NUL at or after offset, or -1
FindNul(b, offset) ==
    LET at == {i \in offset..(Len(b) - 1) : b[i + 1] = 0}
    IN  IF at = {} THEN -1 ELSE CHOOSE i \in at : \A j \in at : i <= j

\* bytes.rstrip(b'\0') / str.rstrip('\0')
RECURSIVE RStripNul(_)
RStripNul(b) ==
    IF Len(b) > 0 /\ b[Len(b)] = 0 THEN RStripNul(SubSeq(b, 1, Len(b) - 1)) ELSE b

\* struct.pack("<36s", b): b cut or padded with NUL to w bytes
PackS(b, w) == [i \in 1..w |-> IF i <= Len(b) THEN b[i] ELSE 0]

\* one code point as UTF-8
Utf8Char(c) ==
    IF c < 128 THEN <<c>>
    ELSE IF c < 2048 THEN <<192 + (c \div 64), 128 + (c % 64)>>
    ELSE IF c < 65536
         THEN <<224 + (c \div 4096), 128 + ((c \div 64) % 64), 128 + (c % 64)>>
    ELSE <<240 + (c \div 262144), 128 + ((c \div 4096) % 64),
           128 + ((c \div 64) % 64), 128 + (c % 64)>>

\* str.encode('utf-8'), halving the str to keep the recursion shallow
RECURSIVE Utf8Encode(_)
Utf8Encode(s) ==
    IF Len(s) = 0 THEN <<>>
    ELSE IF Len(s) = 1 THEN Utf8Char(s[1])
    ELSE Utf8Encode(SubSeq(s, 1, Len(s) \div 2))
         \o Utf8Encode(SubSeq(s, (Len(s) \div 2) + 1, Len(s)))

IsCont(b, i) == i <= Len(b) /\ b[i] >= 128 /\ b[i] <= 191

\* the length of the UTF-8 sequence that the lead byte b[i] starts, 0 when
\* b[i] is no lead byte or the bytes that follow do not continue it
CharLen(b, i) ==
    LET c == b[i]
    IN  IF c < 128 THEN 1
        ELSE IF c >= 194 /\ c <= 223 /\ IsCont(b, i + 1) THEN 2
        ELSE IF /\ c >= 224 /\ c <= 239
                /\ IsCont(b, i + 1) /\ IsCont(b, i + 2)
                /\ (c = 224 => b[i + 1] >= 160)
                /\ (c = 237 => b[i + 1] <= 159) THEN 3
        ELSE IF /\ c >= 240 /\ c <= 244
                /\ IsCont(b, i + 1) /\ IsCont(b, i + 2) /\ IsCont(b, i + 3)
                /\ (c = 240 => b[i + 1] >= 144)
                /\ (c = 244 => b[i + 1] <= 143) THEN 4
        ELSE 0

\* the code point of the sequence that starts at b[i]
CodePoint(b, i) ==
    LET Value(c, n) ==
            CASE n = 1 -> c
              [] n = 2 -> ((c - 192) * 64) + (b[i + 1] - 128)
              [] n = 3 -> ((c - 224) * 4096) + ((b[i + 1] - 128) * 64)
                          + (b[i + 2] - 128)
              [] n = 4 -> ((c - 240) * 262144) + ((b[i + 1] - 128) * 4096)
                          + ((b[i + 2] - 128) * 64) + (b[i + 3] - 128)
    IN  Value(b[i], CharLen(b, i))

\* b is well-formed UTF-8: it starts with a lead byte, and every lead byte
\* has its continuation bytes and is followed by a lead byte or the end
Utf8Valid(b) ==
    LET Whole(i, n) == n > 0 /\ ~IsCont(b, i + n)
    IN  /\ Len(b) > 0 => ~IsCont(b, 1)
        /\ \A i \in 1..Len(b) : ~IsCont(b, i) => Whole(i, CharLen(b, i))

\* the code points of the well-formed b[lo..hi], split at a lead byte near
\* the middle to keep the recursion shallow
RECURSIVE Utf8DecodeRange(_, _, _)
Utf8DecodeRange(b, lo, hi) ==
    LET Split(m) == Utf8DecodeRange(b, lo, m - 1) \o Utf8DecodeRange(b, m, hi)
        Near(m0) == CHOOSE i \in (m0 - 3)..(m0 + 3) :
                        i > lo /\ i <= hi /\ ~IsCont(b, i)
    IN  IF lo > hi THEN <<>>
        ELSE IF lo + CharLen(b, lo) > hi THEN <<CodePoint(b, lo)>>
        ELSE Split(Near((lo + hi + 1) \div 2))

\* bytes.decode('utf-8'): the str, or UnicodeDecodeError
Utf8Decode(b) ==
    IF Utf8Valid(b) THEN Ok(Utf8DecodeRange(b, 1, Len(b)))
    ELSE Raise("UnicodeDecodeError")

\* str.encode('ascii'): UnicodeEncodeError on a code point above 127
AsciiEncode(s) ==
    IF \A i \in 1..Len(s) : s[i] < 128 THEN Ok(s) ELSE Raise("UnicodeEncodeError")

\* bytes.decode('ascii'): UnicodeDecodeError on a byte above 127
AsciiDecode(b) ==
    IF \A i \in 1..Len(b) : b[i] < 128 THEN Ok(b) ELSE Raise("UnicodeDecodeError")

(***************************************************************************)
(* Floats.  A Python float is modelled by the integer h that counts halves *)
(* (the float is h / 2), so 0.5 and 1.5 exist and round() has ties.        *)
(* struct.pack("<f") is the IEEE 754 binary32 encoding of h / 2, rounded   *)
(* to 24 significant bits, ties to even.                                   *)
(***************************************************************************)
Abs(n) == IF n < 0 THEN -n ELSE n

\* float("nan") and float("inf"); -Inf is float("-inf").  No count of halves
\* the model otherwise uses is that large.
NaN == 2147483647
Inf == 2147483646

\* position of the highest set bit of n >= 1
RECURSIVE Msb(_)
Msb(n) == IF n < 2 THEN 0 ELSE 1 + Msb(n \div 2)

\* a / 2^r rounded to nearest, ties to even
RoundShift(a, r) ==
    LET Round(q, rem, half) ==
            IF rem > half \/ (rem = half /\ q % 2 = 1) THEN q + 1 ELSE q
    IN  Round(a \div (2 ^ r), a % (2 ^ r), 2 ^ (r - 1))

\* struct.pack("<f", h / 2)
F32Pack(h) ==
    LET Bytes(sign, be, mant) ==
            << mant % 256, (mant \div 256) % 256,
               ((be % 2) * 128) + (mant \div 65536), (sign * 128) + (be \div 2) >>
        \* sig0: the 24-bit significand, 2^24 when the rounding carried
        Normal(k, sig0) ==
            IF sig0 = 2 ^ 24
            THEN Bytes(IF h < 0 THEN 1 ELSE 0, 127 + k, 0)
            ELSE Bytes(IF h < 0 THEN 1 ELSE 0, 127 + (k - 1), sig0 - 2 ^ 23)
        Significand(a, k) ==
            Normal(k, IF k <= 23 THEN a * (2 ^ (23 - k)) ELSE RoundShift(a, k - 23))
        Magnitude(a) == Significand(a, Msb(a))
    IN  CASE h = 0 -> <<0, 0, 0, 0>>
          [] h = NaN -> <<0, 0, 192, 127>>
          [] h = Inf -> <<0, 0, 128, 127>>
          [] h = -Inf -> <<0, 0, 128, 255>>
          [] OTHER -> Magnitude(Abs(h))

\* struct.unpack("<f", b)[0] as a count of halves; values that are no whole
\* number of halves, or exceed 2^30 halves, are outside the model
F32Unpack(b) ==
    LET Value(sign, a) == IF sign = 1 /\ a # NaN THEN -a ELSE a
        Scaled(be, mant, sig) ==
            CASE be = 0 /\ mant = 0 -> 0
              [] be = 255 -> IF mant = 0 THEN Inf ELSE NaN
              [] be >= 149 /\ be <= 155 -> sig * (2 ^ (be - 149))
              [] be >= 126 /\ be < 149 /\ sig % (2 ^ (149 - be)) = 0
                   -> sig \div (2 ^ (149 - be))
        Fields(be, mant) == Value(b[4] \div 128, Scaled(be, mant, 2 ^ 23 + mant))
    IN  Fields(((b[4] % 128) * 2) + (b[3] \div 128),
               ((b[3] % 128) * 65536) + (b[2] * 256) + b[1])

\* round(h / 2): Python rounds a tie to the even integer
PyRound(h) ==
    LET q == h \div 2
    IN  IF h % 2 = 0 THEN q ELSE IF q % 2 = 0 THEN q ELSE q + 1

(***************************************************************************)
(* zstandard.  ZstdCompressor.compress writes one frame that records the   *)
(* content size; which block encoding it picks cannot be observed through  *)
(* decompress, so the model writes the content as one raw block:           *)
(*   magic 28 B5 2F FD | frame header descriptor | content size |          *)
(*   3-byte block header (last block, raw, size) | content                 *)
(***************************************************************************)
ZstdMagic == <<40, 181, 47, 253>>

ZstdCompress(b) ==
    ZstdMagic
    \o (IF Len(b) < 256 THEN <<32, Len(b)>> ELSE <<96>> \o PackLE(Len(b) - 256, 2))
    \o PackLE((Len(b) * 8) + 1, 3)
    \o b

\* ZstdDecompressor.decompress: the content, or ZstdError when the input is
\* no complete frame (bad magic, bad header, content shorter than announced)
ZstdDecompress(z) ==
    LET \* h: the length of the frame header, size: the content size
        Block(h, size) ==
            IF Len(z) < h + 3 + size \/ ValueLE(z, h + 1, h + 3) # (size * 8) + 1
            THEN Raise("ZstdError")
            ELSE Ok(SubSeq(z, h + 4, h + 3 + size))
    IN  IF Len(z) < 6 \/ SubSeq(z, 1, 4) # ZstdMagic \/ z[5] \notin {32, 96}
        THEN Raise("ZstdError")
        ELSE IF z[5] = 32 THEN Block(6, z[6])
        ELSE Block(7, 256 + ValueLE(z, 6, 7))

(***************************************************************************)
(* IathEncoder, src/iath_encoder.py                                        *)
(* A tile is [metadata, coordinates, content, verification]; the key       *)
(* created_at of metadata may be absent (None).                            *)
(***************************************************************************)
CreatedAtWidth == 27

ReviewerWidth == 36

\* _encode_reviewer_reference: the reviewer id in a fixed 36-byte slot
_encode_reviewer_reference(reviewer) ==
    PackS(Slice(Utf8Encode(reviewer), 0, ReviewerWidth), ReviewerWidth)

\* _encode_string: NUL-terminated UTF-8
_encode_string(s) == Utf8Encode(s) \o <<0>>

\* _encode_metadata; now is datetime.now().isoformat() at the time of the call
_encode_metadata(metadata, now) ==
    LET Join(created_at) ==
            IF ~created_at.ok THEN created_at
            ELSE Ok(_encode_string(metadata.knowledge_id)
                    \o _encode_string(metadata.topic)
                    \o Slice(created_at.val, 0, CreatedAtWidth))
    IN  Join(AsciiEncode(IF metadata.created_at = None THEN now
                         ELSE metadata.created_at[1]))

\* _encode_coordinates: six binary32 floats
_encode_coordinates(coordinates) ==
    LET Concat(packed) ==
            [j \in 1..24 |-> packed[((j - 1) \div 4) + 1][((j - 1) % 4) + 1]]
        Pack(c) == Concat([i \in 1..6 |-> F32Pack(c[i])])
    IN  Ok(Pack(coordinates.medical_space \o coordinates.meta_space))

\* _encode_content: each text with its byte length in front
_encode_content(content) ==
    LET Join(thinking, response) ==
            PackLE(Len(thinking), 4) \o thinking
            \o PackLE(Len(response), 4) \o response
    IN  Ok(Join(Utf8Encode(content.thinking_process),
                Utf8Encode(content.final_response)))

StatusNames == <<"pending_review", "partial_verified", "verified", "expert_confirmed">>

\* status_map.get(status, 0) of the encoder
StatusCode(status) ==
    IF \E i \in 1..Len(StatusNames) : StatusNames[i] = status
    THEN (CHOOSE i \in 1..Len(StatusNames) : StatusNames[i] = status) - 1
    ELSE 0

RECURSIVE EncodeReviewers(_)
EncodeReviewers(rs) ==
    IF rs = <<>> THEN <<>>
    ELSE _encode_reviewer_reference(Head(rs)) \o EncodeReviewers(Tail(rs))

\* _encode_verification: struct.pack("<BBI", ...) raises struct.error when
\* the certainty does not fit one unsigned byte
_encode_verification(verification) ==
    LET status_code == StatusCode(verification.status)
        initial_certainty == verification.initial_certainty
        reviewer_count == Len(verification.reviewers)
    IN  IF initial_certainty < 0 \/ initial_certainty > 255
        THEN Raise("struct.error")
        ELSE Ok(<<status_code, initial_certainty>> \o PackLE(reviewer_count, 4)
                \o EncodeReviewers(verification.reviewers))

\* the four sections, each with its length in front
Sections(md, co, ct, ve) ==
    PackLE(Len(md), 4) \o md \o PackLE(Len(co), 4) \o co
    \o PackLE(Len(ct), 4) \o ct \o PackLE(Len(ve), 4) \o ve

\* encode_tile: the compressed bytes, or the exception a section raised
encode_tile(tile, now) ==
    LET Join(metadata_bin, coord_bin, content_bin, verification_bin) ==
            IF ~metadata_bin.ok THEN metadata_bin
            ELSE IF ~coord_bin.ok THEN coord_bin
            ELSE IF ~content_bin.ok THEN content_bin
            ELSE IF ~verification_bin.ok THEN verification_bin
            ELSE Ok(ZstdCompress(Sections(metadata_bin.val, coord_bin.val,
                                          content_bin.val, verification_bin.val)))
    IN  Join(_encode_metadata(tile.metadata, now),
             _encode_coordinates(tile.coordinates),
             _encode_content(tile.content),
             _encode_verification(tile.verification))

(***************************************************************************)
(* IathDecoder, src/iath_decoder.py                                        *)
(***************************************************************************)
\* mutant: the offset returned still points at the terminating NUL
_decode_string_from_buffer_KeepNul(buffer, offset) ==
    LET Str(end_offset, s) ==
            IF ~s.ok THEN s ELSE Ok([s |-> s.val, offset |-> end_offset])
        Upto(end_offset) ==
            IF end_offset = -1 THEN Raise("ValueError")
            ELSE Str(end_offset, Utf8Decode(Slice(buffer, offset, end_offset)))
    IN  Upto(FindNul(buffer, offset))

\* _decode_string_from_buffer: [ok, val |-> [s, offset]]
_decode_string_from_buffer(buffer, offset) ==
    LET Str(end_offset, s) ==
            IF ~s.ok THEN s ELSE Ok([s |-> s.val, offset |-> end_offset + 1])
        Upto(end_offset) ==
            IF end_offset = -1 THEN Raise("ValueError")
            ELSE Str(end_offset, Utf8Decode(Slice(buffer, offset, end_offset)))
    IN  Upto(FindNul(buffer, offset))

\* _decode_metadata
_decode_metadata(buffer) ==
    LET Restore(kid, topic, created_at) ==
            IF ~created_at.ok THEN created_at
            ELSE Ok([knowledge_id |-> kid.val.s, topic |-> topic.val.s,
                     created_at |-> RStripNul(created_at.val)])
        AfterTopic(kid, topic) ==
            IF ~topic.ok THEN topic
            ELSE Restore(kid, topic,
                         AsciiDecode(Slice(buffer, topic.val.offset,
                                           topic.val.offset + CreatedAtWidth)))
        AfterKid(kid) ==
            IF ~kid.ok THEN kid
            ELSE AfterTopic(kid, _decode_string_from_buffer(buffer, kid.val.offset))
    IN  AfterKid(_decode_string_from_buffer(buffer, 0))

\* _decode_coordinates: struct.error unless the section has 24 bytes
_decode_coordinates(buffer) ==
    IF Len(buffer) # 24 THEN Raise("struct.error")
    ELSE LET c == [i \in 1..6 |-> F32Unpack(SubSeq(buffer, (4 * i) - 3, 4 * i))]
         IN  Ok([medical_space |-> <<c[1], c[2], c[3]>>,
                 meta_space |-> <<c[4], c[5], c[6]>>])

\* _decode_content
_decode_content(buffer) ==
    LET Restore(thinking, response) ==
            IF ~response.ok THEN response
            ELSE Ok([thinking_process |-> thinking.val,
                     final_response |-> response.val])
        Response(thinking, offset, resp_len) ==
            IF ~resp_len.ok THEN resp_len
            ELSE Restore(thinking,
                         Utf8Decode(Slice(buffer, offset + 4,
                                          offset + 4 + resp_len.val)))
        AfterThinking(thinking, offset) ==
            IF ~thinking.ok THEN thinking
            ELSE Response(thinking, offset,
                          UnpackU32(Slice(buffer, offset, offset + 4)))
        Thinking(think_len) ==
            IF ~think_len.ok THEN think_len
            ELSE AfterThinking(Utf8Decode(Slice(buffer, 4, 4 + think_len.val)),
                               4 + think_len.val)
    IN  Thinking(UnpackU32(Slice(buffer, 0, 4)))

\* status_map.get(status_code, "unknown") of the decoder
StatusName(code) ==
    IF code + 1 \in 1..Len(StatusNames) THEN StatusNames[code + 1] ELSE "unknown"

\* _decode_verification: the reviewers are not restored
_decode_verification(buffer) ==
    IF Len(Slice(buffer, 0, 6)) # 6 THEN Raise("struct.error")
    ELSE Ok([status |-> StatusName(buffer[1]),
             initial_certainty |-> buffer[2],
             reviewers |-> <<>>])

\* one length-prefixed section of the decompressed buffer:
\* [ok, val |-> [bytes, offset]], offset being where the next section starts
Section(uncompressed, offset) ==
    LET Cut(len) ==
            IF ~len.ok THEN len
            ELSE Ok([bytes |-> Slice(uncompressed, offset + 4, offset + 4 + len.val),
                     offset |-> offset + 4 + len.val])
    IN  Cut(UnpackU32(Slice(uncompressed, offset, offset + 4)))

\* the next n length-prefixed sections from offset on: their bytes, or the
\* struct.error of a length that could not be read
RECURSIVE ReadSections(_, _, _)
ReadSections(uncompressed, offset, n) ==
    LET Prepend(sec, rest) ==
            IF ~rest.ok THEN rest ELSE Ok(<<sec.val.bytes>> \o rest.val)
        Next(sec) ==
            IF ~sec.ok THEN sec
            ELSE Prepend(sec, ReadSections(uncompressed, sec.val.offset, n - 1))
    IN  IF n = 0 THEN Ok(<<>>) ELSE Next(Section(uncompressed, offset))

\* decode_tile: the restored tile, or ValueError
decode_tile(compressed_binary) ==
    LET Restore(metadata, coordinates, content, verification) ==
            IF ~metadata.ok \/ ~coordinates.ok \/ ~content.ok \/ ~verification.ok
            THEN Raise("ValueError")
            ELSE Ok([metadata |-> metadata.val,
                     content |-> content.val,
                     coordinates |->
                        [medical_space |-> coordinates.val.medical_space,
                         meta_space |-> coordinates.val.meta_space,
                         reasoning_path |-> <<>>],
                     verification |-> verification.val,
                     source |-> <<>>,
                     history |-> <<>>])
        \* sections: the four sections in the order they are written
        Decode(sections) ==
            IF ~sections.ok THEN Raise("ValueError")
            ELSE Restore(_decode_metadata(sections.val[1]),
                         _decode_coordinates(sections.val[2]),
                         _decode_content(sections.val[3]),
                         _decode_verification(sections.val[4]))
        Parse(uncompressed) ==
            IF ~uncompressed.ok THEN Raise("ValueError")
            ELSE Decode(ReadSections(uncompressed.val, 0, 4))
    IN  Parse(ZstdDecompress(compressed_binary))

(***************************************************************************)
(* Ordered dictionaries (collections.OrderedDict / dict)                   *)
(***************************************************************************)
DictKeys(d) == {d[i].k : i \in 1..Len(d)}

HasKey(d, key) == \E i \in 1..Len(d) : d[i].k = key

DictPos(d, key) == CHOOSE i \in 1..Len(d) : d[i].k = key

DictGet(d, key) == d[DictPos(d, key)].v

Remove(d, i) == SubSeq(d, 1, i - 1) \o SubSeq(d, i + 1, Len(d))

\* OrderedDict.move_to_end(key): key becomes the last (most recent) entry
MoveToEnd(d, key) ==
    LET Move(i) == Remove(d, i) \o <<d[i]>>
    IN  Move(DictPos(d, key))

\* d[key] = value: an existing key keeps its position, a new key is appended
DictSet(d, key, value) ==
    IF HasKey(d, key)
    THEN [d EXCEPT ![DictPos(d, key)] = [k |-> key, v |-> value]]
    ELSE Append(d, [k |-> key, v |-> value])

\* OrderedDict.popitem(last=False): drops the first (oldest) entry
PopFirst(d) == Tail(d)

(***************************************************************************)
(* json.dumps(index, ensure_ascii=False) and json.loads, for the index:    *)
(* a list of {"id": str, "offset": int, "length": int}                     *)
(***************************************************************************)
HexDigits == <<48, 49, 50, 51, 52, 53, 54, 55, 56, 57, 97, 98, 99, 100, 101, 102>>

\* one character of a JSON string: ", \ and control characters are escaped
JsonChar(c) ==
    CASE c = 34 -> <<92, 34>>
      [] c = 92 -> <<92, 92>>
      [] c = 10 -> <<92, 110>>
      [] c = 13 -> <<92, 114>>
      [] c = 9 -> <<92, 116>>
      [] c = 8 -> <<92, 98>>
      [] c = 12 -> <<92, 102>>
      [] c < 32 /\ c \notin {8, 9, 10, 12, 13}
            -> <<92, 117, 48, 48, HexDigits[(c \div 16) + 1], HexDigits[(c % 16) + 1]>>
      [] OTHER -> <<c>>

RECURSIVE JsonChars(_)
JsonChars(str) == IF str = <<>> THEN <<>> ELSE JsonChar(Head(str)) \o JsonChars(Tail(str))

JsonString(str) == <<34>> \o JsonChars(str) \o <<34>>

RECURSIVE JsonInt(_)
JsonInt(n) == IF n < 10 THEN <<48 + n>> ELSE JsonInt(n \div 10) \o <<48 + (n % 10)>>

\* the texts between the values of a record: {"id": , "offset": , "length": }
KeyId == <<123, 34, 105, 100, 34, 58, 32>>
KeyOffset == <<44, 32, 34, 111, 102, 102, 115, 101, 116, 34, 58, 32>>
KeyLength == <<44, 32, 34, 108, 101, 110, 103, 116, 104, 34, 58, 32>>

JsonRecord(item) ==
    KeyId \o JsonString(item.id) \o KeyOffset \o JsonInt(item.offset)
    \o KeyLength \o JsonInt(item.length) \o <<125>>

RECURSIVE JsonRecords(_)
JsonRecords(index) ==
    IF Len(index) = 1 THEN JsonRecord(index[1])
    ELSE JsonRecord(index[1]) \o <<44, 32>> \o JsonRecords(Tail(index))

\* json.dumps(index, ensure_ascii=False)
JsonDumps(index) ==
    IF index = <<>> THEN <<91, 93>> ELSE <<91>> \o JsonRecords(index) \o <<93>>

\* text[p..] starts with lit (p counts from 1)
StartsWith(text, p, lit) ==
    /\ p + Len(lit) - 1 <= Len(text)
    /\ \A i \in 1..Len(lit) : text[p + i - 1] = lit[i]

HexValue(c) ==
    IF c >= 48 /\ c <= 57 THEN c - 48
    ELSE IF c >= 97 /\ c <= 102 THEN c - 87
    ELSE IF c >= 65 /\ c <= 70 THEN c - 55
    ELSE -1

\* the characters of a JSON string from p up to its closing quote:
\* [ok, val |-> [s, pos]], pos being the place after the quote
RECURSIVE ParseChars(_, _)
ParseChars(text, p) ==
    LET Prepend(cp, rest) ==
            IF ~rest.ok THEN rest
            ELSE Ok([s |-> <<cp>> \o rest.val.s, pos |-> rest.val.pos])
        \* the escape \e, other than \uXXXX
        Simple(e) ==
            CASE e = 34 -> 34 [] e = 92 -> 92 [] e = 47 -> 47
              [] e = 98 -> 8 [] e = 102 -> 12 [] e = 110 -> 10
              [] e = 114 -> 13 [] e = 116 -> 9 [] OTHER -> -1
        Escape(cp) ==
            IF cp = -1 THEN Raise("JSONDecodeError")
            ELSE Prepend(cp, ParseChars(text, p + 2))
        Unicode ==
            IF p + 5 <= Len(text) /\ \A i \in 2..5 : HexValue(text[p + i]) >= 0
            THEN Prepend((HexValue(text[p + 2]) * 4096) + (HexValue(text[p + 3]) * 256)
                         + (HexValue(text[p + 4]) * 16) + HexValue(text[p + 5]),
                         ParseChars(text, p + 6))
            ELSE Raise("JSONDecodeError")
    IN  IF p > Len(text) THEN Raise("JSONDecodeError")
        ELSE IF text[p] = 34 THEN Ok([s |-> <<>>, pos |-> p + 1])
        ELSE IF text[p] < 32 THEN Raise("JSONDecodeError")
        ELSE IF text[p] # 92 THEN Prepend(text[p], ParseChars(text, p + 1))
        ELSE IF p + 1 > Len(text) THEN Raise("JSONDecodeError")
        ELSE IF text[p + 1] = 117 THEN Unicode
        ELSE Escape(Simple(text[p + 1]))

\* the end of the run of digits that starts at p
RECURSIVE DigitsEnd(_, _)
DigitsEnd(text, p) ==
    IF p <= Len(text) /\ text[p] >= 48 /\ text[p] <= 57
    THEN DigitsEnd(text, p + 1) ELSE p

RECURSIVE DigitsValue(_, _, _)
DigitsValue(text, p, q) ==
    IF q < p THEN 0 ELSE (DigitsValue(text, p, q - 1) * 10) + (text[q] - 48)

\* a non-negative JSON integer at p: [ok, val |-> [n, pos]]
ParseInt(text, p) ==
    LET Number(q) ==
            IF q = p \/ (q > p + 1 /\ text[p] = 48) THEN Raise("JSONDecodeError")
            ELSE Ok([n |-> DigitsValue(text, p, q - 1), pos |-> q])
    IN  Number(DigitsEnd(text, p))

\* one record at p: [ok, val |-> [item, pos]]
ParseRecord(text, p) ==
    LET Close(id, offset, length) ==
            IF ~length.ok THEN length
            ELSE IF ~StartsWith(text, length.val.pos, <<125>>)
            THEN Raise("JSONDecodeError")
            ELSE Ok([item |-> [id |-> id.val.s, offset |-> offset.val.n,
                               length |-> length.val.n],
                     pos |-> length.val.pos + 1])
        AfterOffset(id, offset) ==
            IF ~offset.ok THEN offset
            ELSE IF ~StartsWith(text, offset.val.pos, KeyLength)
            THEN Raise("JSONDecodeError")
            ELSE Close(id, offset,
                       ParseInt(text, offset.val.pos + Len(KeyLength)))
        AfterId(id) ==
            IF ~id.ok THEN id
            ELSE IF ~StartsWith(text, id.val.pos, KeyOffset)
            THEN Raise("JSONDecodeError")
            ELSE AfterOffset(id, ParseInt(text, id.val.pos + Len(KeyOffset)))
    IN  IF ~StartsWith(text, p, KeyId \o <<34>>) THEN Raise("JSONDecodeError")
        ELSE AfterId(ParseChars(text, p + Len(KeyId) + 1))

\* the records from p to the closing bracket, which must end the text
RECURSIVE ParseRecords(_, _)
ParseRecords(text, p) ==
    LET Prepend(rec, more) ==
            IF ~more.ok THEN more ELSE Ok(<<rec.val.item>> \o more.val)
        Next(rec) ==
            IF ~rec.ok THEN rec
            ELSE IF rec.val.pos = Len(text) /\ text[rec.val.pos] = 93
            THEN Ok(<<rec.val.item>>)
            ELSE IF ~StartsWith(text, rec.val.pos, <<44, 32>>)
            THEN Raise("JSONDecodeError")
            ELSE Prepend(rec, ParseRecords(text, rec.val.pos + 2))
    IN  Next(ParseRecord(text, p))

\* json.loads on the text of an index section.  The model reads the texts
\* JsonDumps writes; any other text is a JSONDecodeError.
JsonLoads(text) ==
    IF text = <<91, 93>> THEN Ok(<<>>)
    ELSE IF Len(text) = 0 \/ text[1] # 91 THEN Raise("JSONDecodeError")
    ELSE ParseRecords(text, 2)

(***************************************************************************)
(* The database file: encode_batch and decode_batch                        *)
(***************************************************************************)
header_size == 64

Magic == <<73, 76, 77, 65>>

Zeros(n) == [i \in 1..n |-> 0]

\* mutant: every record gets the offset the loop started with
RECURSIVE EncodeLoop_NoAdvance(_, _, _, _)
EncodeLoop_NoAdvance(tiles_, i, current_offset, now_) ==
    LET Append_(tile_id, compressed_data, rest) ==
            IF ~rest.ok THEN rest
            ELSE Ok([index |-> <<[id |-> tile_id, offset |-> current_offset,
                                  length |-> Len(compressed_data.val)]>>
                               \o rest.val.index,
                     data |-> compressed_data.val \o rest.val.data])
        Chunk(tile_id, compressed_data) ==
            IF ~compressed_data.ok THEN compressed_data
            ELSE Append_(tile_id, compressed_data,
                         EncodeLoop_NoAdvance(tiles_, i + 1, current_offset, now_))
        Tile(tile_id) ==
            IF tile_id = <<>>
            THEN EncodeLoop_NoAdvance(tiles_, i + 1, current_offset, now_)
            ELSE Chunk(tile_id, encode_tile(tiles_[i], now_))
    IN  IF i > Len(tiles_) THEN Ok([index |-> <<>>, data |-> <<>>])
        ELSE Tile(tiles_[i].metadata.knowledge_id)

\* the loop of encode_batch over tiles[i..]: the index records and the data
\* chunks, or the exception encode_tile raised; a tile without id is skipped
RECURSIVE EncodeLoop(_, _, _, _)
EncodeLoop(tiles_, i, current_offset, now_) ==
    LET Append_(tile_id, compressed_data, rest) ==
            IF ~rest.ok THEN rest
            ELSE Ok([index |-> <<[id |-> tile_id, offset |-> current_offset,
                                  length |-> Len(compressed_data.val)]>>
                               \o rest.val.index,
                     data |-> compressed_data.val \o rest.val.data])
        Chunk(tile_id, compressed_data) ==
            IF ~compressed_data.ok THEN compressed_data
            ELSE Append_(tile_id, compressed_data,
                         EncodeLoop(tiles_, i + 1,
                                    current_offset + Len(compressed_data.val),
                                    now_))
        Tile(tile_id) ==
            IF tile_id = <<>> THEN EncodeLoop(tiles_, i + 1, current_offset, now_)
            ELSE Chunk(tile_id, encode_tile(tiles_[i], now_))
    IN  IF i > Len(tiles_) THEN Ok([index |-> <<>>, data |-> <<>>])
        ELSE Tile(tiles_[i].metadata.knowledge_id)

\* struct.pack("<4sIBB32sQQ6x", b'ILMA', 1, domain_code, 1, checksum, ...)
Header(domain_code_, index_offset, data_offset) ==
    Magic \o PackLE(1, 4) \o <<domain_code_, 1>> \o Zeros(32)
    \o PackLE(index_offset, 8) \o PackLE(data_offset, 8) \o Zeros(6)

\* encode_batch: the bytes of the file, or the exception raised
encode_batch(tiles_, domain_code_, now_) ==
    LET Assemble(index_binary, data_section) ==
            Header(domain_code_, header_size, header_size + Len(index_binary))
            \o index_binary \o data_section
        File(loop) ==
            IF ~loop.ok THEN loop
            ELSE IF domain_code_ < 0 \/ domain_code_ > 255 THEN Raise("struct.error")
            ELSE Ok(Assemble(Utf8Encode(JsonDumps(loop.val.index)), loop.val.data))
    IN  File(EncodeLoop(tiles_, 1, 0, now_))

\* the header fields decode_batch reads, for a file of at least 64 bytes
HeaderOf(full_db_content) ==
    [magic |-> SubSeq(full_db_content, 1, 4),
     index_offset |-> ValueLE(full_db_content, 43, 50),
     data_offset |-> ValueLE(full_db_content, 51, 58)]

\* mutant: the magic number is not looked at
IndexOf_AnyMagic(full_db_content) ==
    LET Parse(text) == IF ~text.ok THEN text ELSE JsonLoads(text.val)
        Index(h) ==
            Parse(Utf8Decode(Slice(full_db_content, h.index_offset,
                                   h.data_offset)))
    IN  IF Len(full_db_content) < header_size THEN Raise("ValueError")
        ELSE Index(HeaderOf(full_db_content))

\* mutant: a checksum field that is not all zero is refused
IndexOf_ChecksumVerified(full_db_content) ==
    LET Parse(text) == IF ~text.ok THEN text ELSE JsonLoads(text.val)
        Index(h) ==
            IF h.magic # Magic \/ SubSeq(full_db_content, 11, 42) # Zeros(32)
            THEN Raise("ValueError")
            ELSE Parse(Utf8Decode(Slice(full_db_content, h.index_offset,
                                        h.data_offset)))
    IN  IF Len(full_db_content) < header_size THEN Raise("ValueError")
        ELSE Index(HeaderOf(full_db_content))

\* the index of a file: the parsed records, or the exception raised
IndexOf(full_db_content) ==
    LET Parse(text) == IF ~text.ok THEN text ELSE JsonLoads(text.val)
        Index(h) ==
            IF h.magic # Magic THEN Raise("ValueError")
            ELSE Parse(Utf8Decode(Slice(full_db_content, h.index_offset,
                                        h.data_offset)))
    IN  IF Len(full_db_content) < header_size THEN Raise("ValueError")
        ELSE Index(HeaderOf(full_db_content))

\* the compressed bytes an index record points at
BlobOf(full_db_content, item) ==
    LET start == HeaderOf(full_db_content).data_offset + item.offset
    IN  Slice(full_db_content, start, start + item.length)

\* mutant: an id that is already in the dict keeps its first tile
RECURSIVE DecodeLoop_FirstWins(_, _, _, _)
DecodeLoop_FirstWins(full_db_content, index_, i, all_tiles) ==
    LET Store(decoded_tile) ==
            DecodeLoop_FirstWins(full_db_content, index_, i + 1,
                       IF decoded_tile.ok /\ ~HasKey(all_tiles, index_[i].id)
                       THEN DictSet(all_tiles, index_[i].id, decoded_tile.val)
                       ELSE all_tiles)
    IN  IF i > Len(index_) THEN all_tiles
        ELSE Store(decode_tile(BlobOf(full_db_content, index_[i])))

\* mutant: the loop ends at the first tile that fails to decode
RECURSIVE DecodeLoop_StopAtCorrupt(_, _, _, _)
DecodeLoop_StopAtCorrupt(full_db_content, index_, i, all_tiles) ==
    LET Store(decoded_tile) ==
            IF ~decoded_tile.ok THEN all_tiles
            ELSE DecodeLoop_StopAtCorrupt(full_db_content, index_, i + 1,
                       DictSet(all_tiles, index_[i].id, decoded_tile.val))
    IN  IF i > Len(index_) THEN all_tiles
        ELSE Store(decode_tile(BlobOf(full_db_content, index_[i])))

\* the loop of decode_batch over index[i..], all_tiles being the dict so far:
\* a tile that fails to decode is skipped
RECURSIVE DecodeLoop(_, _, _, _)
DecodeLoop(full_db_content, index_, i, all_tiles) ==
    LET Store(decoded_tile) ==
            DecodeLoop(full_db_content, index_, i + 1,
                       IF decoded_tile.ok
                       THEN DictSet(all_tiles, index_[i].id, decoded_tile.val)
                       ELSE all_tiles)
    IN  IF i > Len(index_) THEN all_tiles
        ELSE Store(decode_tile(BlobOf(full_db_content, index_[i])))

\* decode_batch: the dict id -> tile, or the exception raised
decode_batch(full_db_content) ==
    LET Tiles(index_) ==
            IF ~index_.ok THEN index_
            ELSE Ok(DecodeLoop(full_db_content, index_.val, 1, <<>>))
    IN  Tiles(IndexOf(full_db_content))

(***************************************************************************)
(* IathDBInterface, src/backend/iath_db_interface.py                       *)
(* self is [loaded_tiles, index, is_loaded]; every method yields           *)
(* [self, ret]: the fields it leaves and the value it returns.             *)
(***************************************************************************)
\* (int(round(coord[0])), int(round(coord[1])), int(round(coord[2])))
RoundedCoord(coord) == <<PyRound(coord[1]), PyRound(coord[2]), PyRound(coord[3])>>

\* mutant: a rounded coordinate that is already in the index keeps its id
RECURSIVE BuildIndex_FirstWins(_, _, _)
BuildIndex_FirstWins(tiles_, i, index_) ==
    LET Put(rounded_coord) ==
            BuildIndex_FirstWins(tiles_, i + 1,
                       IF HasKey(index_, rounded_coord) THEN index_
                       ELSE DictSet(index_, rounded_coord, tiles_[i].k))
    IN  IF i > Len(tiles_) THEN index_
        ELSE Put(RoundedCoord(tiles_[i].v.coordinates.medical_space))

\* the loop of load_db over tiles.items() from the i-th item on; a decoded
\* tile always has its three coordinates, so no item is passed over
RECURSIVE BuildIndex(_, _, _)
BuildIndex(tiles_, i, index_) ==
    LET Put(rounded_coord) ==
            BuildIndex(tiles_, i + 1, DictSet(index_, rounded_coord, tiles_[i].k))
    IN  IF i > Len(tiles_) THEN index_
        ELSE Put(RoundedCoord(tiles_[i].v.coordinates.medical_space))

\* mutant: the fields are reset before the file is read
load_db_ResetFirst(self, file_) ==
    LET Loaded(tiles_) ==
            IF ~tiles_.ok
            THEN [self |-> [loaded_tiles |-> <<>>, index |-> <<>>, is_loaded |-> FALSE],
                  ret |-> FALSE, raised |-> None]
            ELSE [self |-> [loaded_tiles |-> tiles_.val,
                            index |-> BuildIndex(tiles_.val, 1, <<>>),
                            is_loaded |-> TRUE],
                  ret |-> TRUE, raised |-> None]
    IN  IF file_ = None
        THEN [self |-> [loaded_tiles |-> <<>>, index |-> <<>>, is_loaded |-> FALSE],
              ret |-> FALSE, raised |-> None]
        ELSE Loaded(decode_batch(file_[1]))

\* load_db; file_ is what is at db_file_path, None when nothing is there (or
\* when open() refuses to read it).  The whole body stands in
\* try ... except Exception, so no exception leaves it: raised is None.
load_db(self, file_) ==
    LET Loaded(tiles_) ==
            IF ~tiles_.ok THEN [self |-> self, ret |-> FALSE, raised |-> None]
            ELSE [self |-> [loaded_tiles |-> tiles_.val,
                            index |-> BuildIndex(tiles_.val, 1, self.index),
                            is_loaded |-> TRUE],
                  ret |-> TRUE, raised |-> None]
    IN  IF file_ = None THEN [self |-> self, ret |-> FALSE, raised |-> None]
        ELSE Loaded(decode_batch(file_[1]))

\* the square of _euclidean_distance(coord1, coord2); the coordinates count
\* halves, so this is four times the sum of squares the code computes
SquaredDistance(coord1, coord2) ==
    ((coord1[1] - coord2[1]) * (coord1[1] - coord2[1]))
    + ((coord1[2] - coord2[2]) * (coord1[2] - coord2[2]))
    + ((coord1[3] - coord2[3]) * (coord1[3] - coord2[3]))

\* mutant: a tile at exactly the tolerance is not a match
_search_coordinate_Strict(loaded, coordinate, tolerance) ==
    LET First(hits) ==
            IF hits = {} THEN None
            ELSE Some(loaded[CHOOSE i \in hits : \A j \in hits : i <= j].v)
    IN  First({i \in 1..Len(loaded) :
                 SquaredDistance(coordinate, loaded[i].v.coordinates.medical_space)
                   < tolerance * tolerance})

\* mutant: of the tiles within the tolerance the nearest is returned
_search_coordinate_Nearest(loaded, coordinate, tolerance) ==
    LET D(i) == SquaredDistance(coordinate, loaded[i].v.coordinates.medical_space)
        Best(hits) ==
            IF hits = {} THEN None
            ELSE Some(loaded[CHOOSE i \in hits :
                        \A j \in hits : D(i) < D(j) \/ (D(i) = D(j) /\ i <= j)].v)
    IN  Best({i \in 1..Len(loaded) : D(i) <= tolerance * tolerance})

\* _search_coordinate: the first tile of loaded_tiles.values() with
\* distance <= tolerance, or None.  Coordinates and tolerance count halves;
\* sum ** 0.5 <= tolerance is decided as sum <= tolerance ** 2, which is the
\* same for these values (the sum and the square are exact in binary64).
_search_coordinate(loaded, coordinate, tolerance) ==
    LET First(hits) ==
            IF hits = {} THEN None
            ELSE Some(loaded[CHOOSE i \in hits : \A j \in hits : i <= j].v)
    IN  First({i \in 1..Len(loaded) :
                 SquaredDistance(coordinate, loaded[i].v.coordinates.medical_space)
                   <= tolerance * tolerance})

\* fetch_async: loads the file first when nothing is loaded yet
fetch_async(self, file_, coordinate, tolerance) ==
    LET Search(s) ==
            [self |-> s,
             ret |-> _search_coordinate(s.loaded_tiles, coordinate, tolerance),
             raised |-> None]
        AfterLoad(l) ==
            IF ~l.ret THEN [self |-> l.self, ret |-> None, raised |-> l.raised]
            ELSE Search(l.self)
    IN  IF ~self.is_loaded THEN AfterLoad(load_db(self, file_))
        ELSE Search(self)

\* str.lower() of one code point, for the Basic Latin and Latin-1 letters
Lower(c) ==
    IF c \in 65..90 \/ c \in 192..214 \/ c \in 216..222 THEN c + 32 ELSE c

\* needle in hay, for two str
IsIn(needle, hay) ==
    \E i \in 1..(Len(hay) + 1) :
        /\ i + Len(needle) - 1 <= Len(hay)
        /\ \A j \in 1..Len(needle) : hay[i + j - 1] = needle[j]

\* mutant: the case of the letters counts
KeywordMatches_CaseSensitive(keyword, content) == IsIn(keyword, content)

\* keyword.lower() in content.lower()
KeywordMatches(keyword, content) ==
    IsIn([j \in 1..Len(keyword) |-> Lower(keyword[j])],
         [j \in 1..Len(content) |-> Lower(content[j])])

\* search_by_keyword: the tiles of loaded_tiles.values() whose final_response
\* holds the keyword, case ignored, in the order of the dict
search_by_keyword(loaded, keyword) ==
    LET Hit(e) == KeywordMatches(keyword, e.v.content.final_response)
        Tile(hits) == [i \in 1..Len(hits) |-> hits[i].v]
    IN  Tile(SelectSeq(loaded, Hit))

RECURSIVE Gcd(_, _)
Gcd(a, b) == IF b = 0 THEN a ELSE Gcd(b, a % b)

\* a / b of two numbers, as the fraction in lowest terms
Fraction(a, b) ==
    LET Reduced(g) == [num |-> a \div g, den |-> b \div g]
    IN  Reduced(Gcd(Abs(a), b))

RECURSIVE SumOf(_)
SumOf(xs) == IF xs = <<>> THEN 0 ELSE Head(xs) + SumOf(Tail(xs))

\* the dict get_stats returns for the list of certainties it collected; the
\* certainties count halves, file_ is what os.path.getsize looks at
StatsOf(certainties, total_tiles, file_) ==
    LET Values == {certainties[i] : i \in DOMAIN certainties}
        Least == IF Values = {} THEN 0
                 ELSE CHOOSE c \in Values : \A d \in Values : c <= d
        Most == IF Values = {} THEN 0
                ELSE CHOOSE c \in Values : \A d \in Values : c >= d
    IN  IF file_ = None THEN Raise("FileNotFoundError")
        ELSE Ok([status |-> "loaded",
                 total_tiles |-> total_tiles,
                 avg_certainty |-> IF certainties = <<>> THEN Fraction(0, 1)
                                   ELSE Fraction(SumOf(certainties),
                                                 2 * Len(certainties)),
                 min_certainty |-> Fraction(Least, 2),
                 max_certainty |-> Fraction(Most, 2),
                 file_size_mb |-> Fraction(Len(file_[1]), 1048576)])

\* get_stats
get_stats(self, file_) ==
    IF ~self.is_loaded THEN Ok([status |-> "not_loaded"])
    ELSE StatsOf([i \in 1..Len(self.loaded_tiles) |->
                    self.loaded_tiles[i].v.coordinates.meta_space[1]],
                 Len(self.loaded_tiles), file_)

\* A reader is one call of fetch_async, search_by_keyword or get_stats that
\* runs in a thread of its own: pos counts the values of loaded_tiles its
\* for loop has taken, acc is its results or certainties list.
IdleReader ==
    [state |-> "idle", op |-> "none", coordinate |-> <<0, 0, 0>>,
     tolerance |-> 0, keyword |-> <<>>, pos |-> 0, acc |-> <<>>, ret |-> None]

\* the call is entered, up to its for loop: fetch_async loads the file when
\* nothing is loaded, get_stats returns at once when nothing is loaded
Enter(rd, self, file_) ==
    LET Running == [rd EXCEPT !.state = "running", !.pos = 0, !.acc = <<>>,
                              !.ret = None]
        Done(v) == [Running EXCEPT !.state = "done", !.ret = v]
        AfterLoad(l) ==
            [reader |-> IF l.ret THEN Running ELSE Done(Ok(None)),
             self |-> l.self]
    IN  CASE rd.op = "fetch" /\ ~self.is_loaded -> AfterLoad(load_db(self, file_))
          [] rd.op = "stats" /\ ~self.is_loaded ->
                [reader |-> Done(Ok([status |-> "not_loaded"])), self |-> self]
          [] OTHER -> [reader |-> Running, self |-> self]

\* mutant: a fetch takes the tile it returns out of loaded_tiles
Visit_TakeOut(rd, self, file_) ==
    LET loaded == self.loaded_tiles
        Done(v) == [rd EXCEPT !.state = "done", !.ret = v]
        Without(i) == [self EXCEPT !.loaded_tiles =
                          SubSeq(loaded, 1, i - 1) \o SubSeq(loaded, i + 1, Len(loaded))]
        Body(t) ==
            CASE rd.op = "fetch" ->
                   IF SquaredDistance(rd.coordinate, t.coordinates.medical_space)
                        <= rd.tolerance * rd.tolerance
                   THEN [reader |-> Done(Ok(Some(t))), self |-> Without(rd.pos + 1)]
                   ELSE [reader |-> [rd EXCEPT !.pos = rd.pos + 1], self |-> self]
              [] rd.op = "keyword" ->
                   [reader |-> [rd EXCEPT !.pos = rd.pos + 1,
                          !.acc = IF KeywordMatches(rd.keyword, t.content.final_response)
                                  THEN Append(rd.acc, t) ELSE rd.acc],
                    self |-> self]
              [] rd.op = "stats" ->
                   [reader |-> [rd EXCEPT !.pos = rd.pos + 1,
                          !.acc = Append(rd.acc, t.coordinates.meta_space[1])],
                    self |-> self]
        End ==
            CASE rd.op = "fetch" -> Done(Ok(None))
              [] rd.op = "keyword" -> Done(Ok(rd.acc))
              [] rd.op = "stats" -> Done(StatsOf(rd.acc, Len(loaded), file_))
    IN  IF rd.pos < Len(loaded) THEN Body(loaded[rd.pos + 1].v)
        ELSE [reader |-> End, self |-> self]

\* one turn of the reader's for loop over self.loaded_tiles.values(), or,
\* when the values are exhausted, the rest of the call up to its return
Visit(rd, self, file_) ==
    LET loaded == self.loaded_tiles
        Done(v) == [rd EXCEPT !.state = "done", !.ret = v]
        Body(t) ==
            CASE rd.op = "fetch" ->
                   IF SquaredDistance(rd.coordinate, t.coordinates.medical_space)
                        <= rd.tolerance * rd.tolerance
                   THEN Done(Ok(Some(t)))
                   ELSE [rd EXCEPT !.pos = rd.pos + 1]
              [] rd.op = "keyword" ->
                   [rd EXCEPT !.pos = rd.pos + 1,
                          !.acc = IF KeywordMatches(rd.keyword, t.content.final_response)
                                  THEN Append(rd.acc, t) ELSE rd.acc]
              [] rd.op = "stats" ->
                   [rd EXCEPT !.pos = rd.pos + 1,
                          !.acc = Append(rd.acc, t.coordinates.meta_space[1])]
        End ==
            CASE rd.op = "fetch" -> Done(Ok(None))
              [] rd.op = "keyword" -> Done(Ok(rd.acc))
              [] rd.op = "stats" -> Done(StatsOf(rd.acc, Len(loaded), file_))
    IN  [reader |-> IF rd.pos < Len(loaded) THEN Body(loaded[rd.pos + 1].v)
                    ELSE End,
         self |-> self]

(***************************************************************************)
(* create_knowledge_tile, src/knowledge_tile_generator.py                  *)
(* The str constants that no code of the model looks into ("medical",      *)
(* "1.0", "deepseek-r1", "created") are TLA+ strings.                      *)
(***************************************************************************)
\* extract_references(text): the guideline when the text names guidelines,
\* and the word that starts at the first "bunken" (U+6587 U+732E)
extract_references(text) ==
    LET Guideline == <<12460, 12452, 12489, 12521, 12452, 12531>>
        Bunken == <<25991, 29486>>
        \* what str.split() splits at
        Space == {9, 10, 11, 12, 13, 28, 29, 30, 31, 32, 133, 160, 5760,
                  8232, 8233, 8239, 8287, 12288} \cup (8192..8202)
        At(pat, i) == /\ i + Len(pat) - 1 <= Len(text)
                      /\ SubSeq(text, i, i + Len(pat) - 1) = pat
        Has(pat) == \E i \in 1..Len(text) : At(pat, i)
        Find(pat) == CHOOSE i \in 1..Len(text) :
                        At(pat, i) /\ \A j \in 1..(i - 1) : ~At(pat, j)
        \* text[from:].split()[0], text[from] being no space
        Word(from) ==
            LET end == IF \E j \in from..Len(text) : text[j] \in Space
                       THEN (CHOOSE j \in from..Len(text) :
                                /\ text[j] \in Space
                                /\ \A k \in from..(j - 1) : text[k] \notin Space) - 1
                       ELSE Len(text)
            IN  SubSeq(text, from, end)
    IN  (IF Has(Guideline)
         THEN << <<26085, 26412, 24490, 29872, 22120, 23398, 20250, 12460, 12452,
                   12489, 12521, 12452, 12531, 50, 48, 50, 51>> >>
         ELSE <<>>)
        \o (IF Has(Bunken) THEN <<Word(Find(Bunken))>> ELSE <<>>)

\* create_knowledge_tile(deepseek_response, coordinates, topic, audience_level)
\* uuid4 is str(uuid.uuid4()), now_ is datetime.now().isoformat(); a step of
\* coordinates holds its confidence as a whole number of percent, which is
\* what the format .0% prints
create_knowledge_tile(deepseek_response, coordinates, topic, audience_level, uuid4, now_) ==
    LET Text(field) == IF field = None THEN <<>> ELSE field[1]
        main_coordinate == coordinates[1].coordinate
    IN  IF coordinates = <<>> THEN Raise("ValueError")
        ELSE Ok(
          [ metadata |->
              [ knowledge_id |-> <<107, 116, 105, 108, 101, 45>> \o uuid4,
                topic |-> topic,
                domain |-> "medical",
                audience_level |-> audience_level,
                created_at |-> Some(now_),
                version |-> "1.0" ],
            content |->
              [ thinking_process |-> Text(deepseek_response.thinking),
                final_response |-> Text(deepseek_response.response),
                references |-> extract_references(Text(deepseek_response.response)) ],
            coordinates |->
              [ medical_space |-> main_coordinate.medical_space,
                meta_space |-> main_coordinate.meta_space,
                reasoning_path |-> coordinates ],
            verification |->
              [ status |-> "pending_review",
                \* meta_space[0] is the int c of coordinate_mapper.py, an
                \* even count of halves
                initial_certainty |-> main_coordinate.meta_space[1] \div 2,
                reviewers |-> <<>>,
                modifications |-> <<>>,
                external_sources |-> <<>> ],
            source |->
              [ generator |-> "deepseek-r1",
                generation_prompt |-> topic,
                thinking_depth |-> Len(coordinates) ],
            history |->
              \* timestamp: a second reading of the clock, taken in the same
              \* microsecond here; nothing reads it
              << [ timestamp |-> now_,
                   action |-> "created",
                   by |-> "deepseek-r1",
                   details |-> <<21021, 26399, 29983, 25104, 65306, 30906, 23455,
                                 24615>> \o JsonInt(coordinates[1].confidence)
                               \o <<37>> ] >> ])

(***************************************************************************)
(* SpatialEncodingEngine, src/layer1_spatial_encoding.py, and              *)
(* CoordinateMapper, src/coordinate_mapper.py.  keyword_map is the dict    *)
(* schema["keyword_map"]: keyword -> {axis, coord}, in the order of the    *)
(* schema.  Coordinates count halves, confidences count hundredths.        *)
(***************************************************************************)
\* axis_map = {'x': 0, 'y': 1, 'z': 2}
axis_map == <<"x", "y", "z">>

\* _extract_keywords: the keys of keyword_map that are in the text
_extract_keywords(keyword_map, text) ==
    LET Found(e) == IsIn(e.k, text)
        Keys(es) == [i \in 1..Len(es) |-> es[i].k]
    IN  Keys(SelectSeq(keyword_map, Found))

\* mutant: the last keyword found for an axis gives the coordinate
extract_coordinates_from_question_Last(keyword_map, question, default_coord) ==
    LET keywords == _extract_keywords(keyword_map, question)
        OnAxis(axis_name) ==
            LET Here(kw) == DictGet(keyword_map, kw).axis = axis_name
            IN  SelectSeq(keywords, Here)
        Coord(axis_index) ==
            LET axis_keywords == OnAxis(axis_map[axis_index])
            IN  IF axis_keywords # <<>>
                THEN DictGet(keyword_map, axis_keywords[Len(axis_keywords)]).coord
                ELSE default_coord[axis_index]
    IN  IF keywords = <<>>
        THEN << [keyword |-> "default", concept |-> "default",
                 coordinate |-> default_coord, confidence |-> 50] >>
        ELSE << [keywords_found |-> keywords, concept |-> "inferred_concept",
                 coordinate |-> [axis_index \in 1..3 |-> Coord(axis_index)],
                 confidence |-> 75] >>

\* extract_coordinates_from_question
extract_coordinates_from_question(keyword_map, question, default_coord) ==
    LET keywords == _extract_keywords(keyword_map, question)
        OnAxis(axis_name) ==
            LET Here(kw) == DictGet(keyword_map, kw).axis = axis_name
            IN  SelectSeq(keywords, Here)
        Coord(axis_index) ==
            LET axis_keywords == OnAxis(axis_map[axis_index])
            IN  IF axis_keywords # <<>>
                THEN DictGet(keyword_map, axis_keywords[1]).coord
                ELSE default_coord[axis_index]
    IN  IF keywords = <<>>
        THEN << [keyword |-> "default", concept |-> "default",
                 coordinate |-> default_coord, confidence |-> 50] >>
        ELSE << [keywords_found |-> keywords, concept |-> "inferred_concept",
                 coordinate |-> [axis_index \in 1..3 |-> Coord(axis_index)],
                 confidence |-> 75] >>

\* " ".join(step["text"] for step in reasoning_steps)
RECURSIVE JoinTexts(_)
JoinTexts(reasoning_steps) ==
    IF reasoning_steps = <<>> THEN <<>>
    ELSE IF Len(reasoning_steps) = 1 THEN reasoning_steps[1].text
    ELSE reasoning_steps[1].text \o <<32>> \o JoinTexts(Tail(reasoning_steps))

\* len(text.split()): the runs of characters that are not white space
WordCount(text) ==
    LET White == {9, 10, 11, 12, 13, 28, 29, 30, 31, 32, 133, 160, 5760,
                  8232, 8233, 8239, 8287, 12288} \cup (8192..8202)
    IN  Cardinality({i \in 1..Len(text) :
                       /\ text[i] \notin White
                       /\ (i = 1 \/ text[i - 1] \in White)})

\* calculate_granularity(word_count) = min(1000, max(1, ceil(log2(n) * 100))),
\* src/certainty_calculation_formula.py, for the word counts up to 4
calculate_granularity(word_count) ==
    CASE word_count <= 1 -> 1
      [] word_count = 2 -> 100
      [] word_count = 3 -> 159
      [] word_count = 4 -> 200

\* int(step["confidence"] * 100) of a confidence n / 100: the binary64
\* product falls just below n for three n (0.29 * 100 = 28.999999999999996)
\* and int() cuts it down
ConfidencePercent(confidence) ==
    IF confidence \in {29, 57, 58} THEN confidence - 1 ELSE confidence

\* the body of the for loop over the steps: the coordinate of one step
MapStep(keyword_map, step, default_coord) ==
    LET step_keywords == _extract_keywords(keyword_map, step.text)
        \* the last keyword of the step that is on the axis writes last
        Coord(axis_index) ==
            LET Here(kw) == DictGet(keyword_map, kw).axis = axis_map[axis_index]
                Writers == SelectSeq(step_keywords, Here)
            IN  IF Writers = <<>> THEN default_coord[axis_index]
                ELSE DictGet(keyword_map, Writers[Len(Writers)]).coord
    IN  [ step_sequence |-> step.sequence,
          reasoning_text |-> step.text,
          coordinate |->
             [medical_space |-> [axis_index \in 1..3 |-> Coord(axis_index)],
              meta_space |-> << 2 * ConfidencePercent(step.confidence),
                                2 * calculate_granularity(WordCount(step.text)),
                                100 >>],
          concept_tags |-> step.concepts,
          confidence |-> step.confidence ]

\* the coordinate estimated from the text of all steps
WholeTextDefault(keyword_map, full_text) ==
    [axis_index \in 1..3 |->
        LET Here(e) == e.v.axis = axis_map[axis_index] /\ IsIn(e.k, full_text)
            axis_keywords == SelectSeq(keyword_map, Here)
        IN  IF axis_keywords # <<>> THEN axis_keywords[1].v.coord ELSE 100]

\* mutant: every step gets the coordinate of the whole text
map_reasoning_to_domain_space_NoOverride(keyword_map, reasoning_steps) ==
    LET Mapped(default_coord) ==
            [i \in 1..Len(reasoning_steps) |->
               [MapStep(keyword_map, reasoning_steps[i], default_coord)
                   EXCEPT !.coordinate.medical_space = default_coord]]
    IN  Mapped(WholeTextDefault(keyword_map, JoinTexts(reasoning_steps)))

\* map_reasoning_to_domain_space; every axis of keyword_map is x, y or z
map_reasoning_to_domain_space(keyword_map, reasoning_steps) ==
    LET Mapped(default_coord) ==
            [i \in 1..Len(reasoning_steps) |->
               MapStep(keyword_map, reasoning_steps[i], default_coord)]
    IN  Mapped(WholeTextDefault(keyword_map, JoinTexts(reasoning_steps)))

(***************************************************************************)
(* SymbioticTwinEngineSystem, src/ilm_athens_engine/core/symbiotic_engine.py *)
(* self is the record of the fields the methods read and write; a node of  *)
(* a buffer is [content, memory_type, source] (node_id, a time stamp, is   *)
(* left out).                                                              *)
(***************************************************************************)
\* LocalMemoryBuffer.add on the buffer of the engine called name
MemoryAdd(sap_, name, content, memory_type, source) ==
    [sap_ EXCEPT ![name] = Append(@, [content |-> content,
                                      memory_type |-> memory_type,
                                      source |-> source])]

\* l0_reset_and_swap up to its await: the buffers are merged into a prompt,
\* both are cleared, and the roles are exchanged
l0_reset_and_swap(self) ==
    [self EXCEPT !.sap = [n \in DOMAIN self.sap |-> <<>>],
                 !.active_engine = self.passive_engine,
                 !.passive_engine = self.active_engine,
                 !.active_memory = self.passive_memory,
                 !.passive_memory = self.active_memory]

\* mutant: the swap comes with the turn after a multiple of the threshold
RecordTurn_Late(self, user_input, active_response, passive_insights) ==
    LET Counted(s) == [s EXCEPT !.turn_count = s.turn_count + 1]
        Decide(s) ==
            IF s.turn_count % s.l0_reset_threshold = 1 /\ s.turn_count > 1
            THEN [self |-> l0_reset_and_swap(s), swapped |-> TRUE]
            ELSE [self |-> s, swapped |-> FALSE]
    IN  Decide(Counted(
          [self EXCEPT !.sap =
             MemoryAdd(MemoryAdd(MemoryAdd(self.sap,
                 self.active_memory, user_input, "episodic", "user_input"),
                 self.active_memory, active_response, "episodic", "engine_output"),
                 self.passive_memory, passive_insights, "insight", "hidden_analysis")]))

\* process_user_input from the return of asyncio.gather to the await inside
\* l0_reset_and_swap, or to its return when there is no swap
RecordTurn(self, user_input, active_response, passive_insights) ==
    LET Counted(s) == [s EXCEPT !.turn_count = s.turn_count + 1]
        Decide(s) ==
            IF s.turn_count % s.l0_reset_threshold = 0
            THEN [self |-> l0_reset_and_swap(s), swapped |-> TRUE]
            ELSE [self |-> s, swapped |-> FALSE]
    IN  Decide(Counted(
          [self EXCEPT !.sap =
             MemoryAdd(MemoryAdd(MemoryAdd(self.sap,
                 self.active_memory, user_input, "episodic", "user_input"),
                 self.active_memory, active_response, "episodic", "engine_output"),
                 self.passive_memory, passive_insights, "insight", "hidden_analysis")]))

(***************************************************************************)
(* NurseLogSystem, src/ilm_athens_engine/core/nurse_log_system.py          *)
(* self is the record of the fields the methods read and write.  Scores    *)
(* count hundredths, maturity_score counts ten-thousandths.  The time      *)
(* stamps of ConversationLog and StudentModelState are left out.           *)
(***************************************************************************)
succession_threshold == 85
maturity_threshold_for_inference == 70

\* StudentModelState(generation=..., maturity_score=0.0, ...)
StudentModelState(generation) ==
    [generation |-> generation, training_steps |-> 0, total_conversations |-> 0,
     confidence_score |-> 0, is_ready_for_succession |-> FALSE,
     maturity_score |-> 0, is_mature_for_inference |-> FALSE,
     dream_cycles_completed |-> 0, evaluation_history |-> <<>>]

\* _is_apprentice_mature: the answer, and the state with the flag it sets
_is_apprentice_mature(self) ==
    LET state == self.current_apprentice_state
        maturity_ok == state.maturity_score >= 100 * maturity_threshold_for_inference
        cycles_ok == state.dream_cycles_completed >= self.min_dream_cycles_for_inference
        is_mature == maturity_ok /\ cycles_ok
    IN  [self |-> IF is_mature /\ ~state.is_mature_for_inference
                  THEN [self EXCEPT !.current_apprentice_state.is_mature_for_inference = TRUE]
                  ELSE self,
         ret |-> is_mature]

\* _update_apprentice_maturity(evaluation_score)
_update_apprentice_maturity(self, evaluation_score) ==
    LET history == Append(self.current_apprentice_state.evaluation_history,
                          evaluation_score)
        n == Len(history)
        \* weights 0.2, 0.3, 0.5 on the last three, the plain mean of fewer
        score == IF n >= 3
                 THEN 20 * history[n - 2] + 30 * history[n - 1] + 50 * history[n]
                 ELSE (100 * SumOf(history)) \div n
    IN  _is_apprentice_mature(
          [self EXCEPT !.current_apprentice_state =
             [@ EXCEPT !.evaluation_history = history,
                       !.dream_cycles_completed = @ + 1,
                       !.maturity_score = score,
                       !.confidence_score = evaluation_score]]).self

\* _evaluate_apprentice: 0.7 + current_generation * 0.05
_evaluate_apprentice(self) == 70 + (self.current_generation * 5)

\* _succession_protocol
_succession_protocol(self) ==
    LET pool == Append(self.mature_student_pool, self.current_generation)
    IN  [self EXCEPT
           !.current_generation = @ + 1,
           !.generation_history =
               Append(@, [self.current_apprentice_state
                            EXCEPT !.is_ready_for_succession = TRUE]),
           \* max_pool_size = 2
           !.mature_student_pool = IF Len(pool) > 2 THEN Tail(pool) ELSE pool,
           !.current_apprentice_state =
               StudentModelState(self.current_generation + 1)]

\* dreaming_phase, confidence being what await self._evaluate_apprentice()
\* gives.  Neither that coroutine nor _succession_protocol suspends, and
\* the training loop is plain code, so the task runs from its first line
\* to its last in one step of the event loop.
dreaming_phase(self, confidence) ==
    LET training_data == SelectSeq(self.conversation_buffer,
                                   LAMBDA log : log.success)
        Trained(s) ==
            [s EXCEPT !.current_apprentice_state.training_steps =
                         @ + (Len(training_data) * 3)]
        Decided(s) ==
            IF /\ confidence >= succession_threshold
               /\ s.current_apprentice_state.is_mature_for_inference
            THEN _succession_protocol(s) ELSE s
        Ended(s) == [s EXCEPT !.conversation_buffer = <<>>, !.is_dreaming = FALSE]
    IN  IF self.is_dreaming THEN self
        ELSE IF training_data = <<>> THEN [self EXCEPT !.is_dreaming = FALSE]
        ELSE Ended(Decided(_update_apprentice_maturity(
                 Trained([self EXCEPT !.is_dreaming = TRUE]), confidence)))

\* process_conversation after its awaits: the log is appended, and a
\* dreaming_phase task is created when the buffer is full and no phase runs
RecordConversation(self, user_input) ==
    LET Logged ==
            [self EXCEPT
               !.conversation_buffer =
                   Append(@, [user_input |-> user_input, success |-> TRUE]),
               !.current_apprentice_state.total_conversations = @ + 1]
    IN  [self |-> Logged,
         create_task |-> /\ Len(Logged.conversation_buffer)
                              >= self.dream_interval_conversations
                         /\ ~self.is_dreaming]

(***************************************************************************)
(* LRUCache, src/hot_cache.py                                              *)
(***************************************************************************)
MaxCapacity == 3
NumKeys == 4
NumValues == 2

CacheKeys == 1..NumKeys
CacheValues == 1..NumValues

\* Every method yields [raised, cache, ret]: whether it raised KeyError, the
\* _cache it leaves, and the value it returns.

\* mutant: membership test written with get, which refreshes the key
LRU_contains_ViaGet(c, key) ==
    IF ~HasKey(c, key)
    THEN [raised |-> FALSE, cache |-> c, ret |-> FALSE]
    ELSE [raised |-> FALSE, cache |-> MoveToEnd(c, key), ret |-> TRUE]

\* LRUCache.__contains__
LRU_contains(c, key) == [raised |-> FALSE, cache |-> c, ret |-> HasKey(c, key)]

\* mutant: a hit does not move the key to the end
LRU_getitem_NoRefresh(c, key) ==
    IF ~HasKey(c, key)
    THEN [raised |-> TRUE, cache |-> c, ret |-> None]
    ELSE [raised |-> FALSE, cache |-> c, ret |-> Some(DictGet(c, key))]

\* LRUCache.__getitem__
LRU_getitem(c, key) ==
    IF ~HasKey(c, key)
    THEN [raised |-> TRUE, cache |-> c, ret |-> None]
    ELSE [raised |-> FALSE, cache |-> MoveToEnd(c, key),
          ret |-> Some(DictGet(MoveToEnd(c, key), key))]

\* mutant: a full cache makes room before looking whether the key is new
LRU_setitem_EvictFirst(c, key, value, max) ==
    LET c0 == IF Len(c) >= max THEN PopFirst(c) ELSE c
        c1 == IF HasKey(c0, key) THEN MoveToEnd(c0, key) ELSE c0
    IN  [raised |-> FALSE, cache |-> DictSet(c1, key, value), ret |-> None]

\* mutant: a set on a key that is present keeps the value it had
LRU_setitem_KeepOld(c, key, value, max) ==
    LET c1 == IF HasKey(c, key) THEN MoveToEnd(c, key) ELSE c
        c2 == IF HasKey(c, key) THEN c1 ELSE DictSet(c1, key, value)
    IN  [raised |-> FALSE,
         cache |-> IF Len(c2) > max THEN PopFirst(c2) ELSE c2,
         ret |-> None]

\* LRUCache.__setitem__
LRU_setitem(c, key, value, max) ==
    LET c1 == IF HasKey(c, key) THEN MoveToEnd(c, key) ELSE c
        c2 == DictSet(c1, key, value)
    IN  [raised |-> FALSE,
         cache |-> IF Len(c2) > max THEN PopFirst(c2) ELSE c2,
         ret |-> None]

\* LRUCache.get(key, default)
LRU_get(c, key, default) ==
    IF HasKey(c, key)
    THEN LRU_getitem(c, key)
    ELSE [raised |-> FALSE, cache |-> c, ret |-> default]

(***************************************************************************)
(* LRUCache.get and LRUCache.__setitem__ statement by statement, for       *)
(* threads that share one cache: CacheService._memory_cache is a class     *)
(* attribute, one LRUCache for all CacheService objects                    *)
(* (src/backend/app/services/cache_service.py:21), and no method of        *)
(* LRUCache takes a lock.  Each operation of the OrderedDict is atomic.    *)
(* A thread is [op, key, value, pc, ret, raised]; the step of a thread     *)
(* yields the thread and the cache after it.                               *)
(***************************************************************************)
IdleThread ==
    [op |-> "none", key |-> 0, value |-> 0, pc |-> "idle", ret |-> None,
     raised |-> FALSE]

ThreadStep(th, c, max) ==
    LET At(pc_) == [thread |-> [th EXCEPT !.pc = pc_], cache |-> c]
        Returns(v) == [thread |-> [th EXCEPT !.pc = "done", !.ret = v], cache |-> c]
        KeyError == [thread |-> [th EXCEPT !.pc = "done", !.raised = TRUE],
                     cache |-> c]
        Writes(c_, pc_) == [thread |-> [th EXCEPT !.pc = pc_], cache |-> c_]
    IN  CASE \* get: if key in self._cache
             th.pc = "get_in" ->
                IF HasKey(c, th.key) THEN At("getitem_in") ELSE Returns(None)
             \* __getitem__: if key not in self._cache: raise KeyError
          [] th.pc = "getitem_in" ->
                IF ~HasKey(c, th.key) THEN KeyError ELSE At("getitem_move")
             \* self._cache.move_to_end(key)
          [] th.pc = "getitem_move" ->
                IF ~HasKey(c, th.key) THEN KeyError
                ELSE Writes(MoveToEnd(c, th.key), "getitem_read")
             \* return self._cache[key]
          [] th.pc = "getitem_read" ->
                IF ~HasKey(c, th.key) THEN KeyError
                ELSE Returns(Some(DictGet(c, th.key)))
             \* __setitem__: if key in self._cache
          [] th.pc = "set_in" ->
                IF HasKey(c, th.key) THEN At("set_move") ELSE At("set_store")
             \* self._cache.move_to_end(key)
          [] th.pc = "set_move" ->
                IF ~HasKey(c, th.key) THEN KeyError
                ELSE Writes(MoveToEnd(c, th.key), "set_store")
             \* self._cache[key] = value
          [] th.pc = "set_store" -> Writes(DictSet(c, th.key, th.value), "set_len")
             \* if len(self._cache) > self.max_size
          [] th.pc = "set_len" ->
                IF Len(c) > max THEN At("set_pop") ELSE Returns(None)
             \* self._cache.popitem(last=False)
          [] th.pc = "set_pop" ->
                IF c = <<>> THEN KeyError ELSE Writes(PopFirst(c), "done")

VARIABLES
    max_size,   \* LRUCache.max_size
    cache,      \* LRUCache._cache
    lastOp,     \* the call that produced this state: [op, key, value, hit],
                \* hit: the key was in the cache when the call was made
    ret,        \* what that call returned
    raised,     \* whether that call raised KeyError
    lastUse,    \* history: for each key in the cache, the rank of its most
                \* recent set or successful get among the keys present (0: absent)
    script,     \* history: how many calls of the usage example have been replayed
    lastSet     \* history: for each key, the value of its most recent set if
                \* the key has not left the cache since, None otherwise

cacheVars == <<max_size, cache, lastOp, ret, raised, lastUse, script, lastSet>>

VARIABLES
    tile,       \* the tile handed to encode_tile
    now,        \* datetime.now().isoformat() at the time of the call
    pc,         \* where the round trip stands: tile, encoded, decoded, failed
    encoded,    \* what encode_tile returned (or raised)
    decoded,    \* what decode_tile returned (or raised)
    prevStatus, \* history: the status the tile had before its last update
    harm,       \* history: what happened to the encoded bytes before they
                \* reached decode_tile: [kind, at]
    again       \* what a second call of encode_tile on the same tile returned

codecVars == <<tile, now, pc, encoded, decoded, prevStatus, harm, again>>

VARIABLES
    tiles,        \* the list handed to encode_batch
    domain_code,  \* the domain code handed to encode_batch
    file,         \* the bytes of the database file
    damage,       \* history: what was done to the file after it was written
    out,          \* what decode_batch returned (or raised)
    bpc           \* where the batch stands: tiles, file, decoded

batchVars == <<tiles, domain_code, file, damage, out, bpc>>

VARIABLES
    source_tiles, \* history: the list the file at db_file_path was built from
    db_file,      \* the bytes at db_file_path, None when there is no such file
    loaded_tiles, \* IathDBInterface.loaded_tiles
    index,        \* IathDBInterface.index
    is_loaded,    \* IathDBInterface.is_loaded
    loaded_file,  \* history: the bytes the last successful load_db read
    loads,        \* history: how many calls of load_db have succeeded
    rebuilds,     \* history: how many times the file has been rebuilt
    call,         \* the call that produced this state: [op, coordinate, tolerance]
    result,       \* what that call returned
    escaped,      \* the exception that call raised, None when it returned
    readers       \* the calls that read the store in threads of their own

storeVars == <<source_tiles, db_file, loaded_tiles, index, is_loaded,
               loaded_file, loads, rebuilds, call, result, escaped, readers>>

VARIABLES
    keyword_map,      \* the keyword_map of the engine and of the mapper
    question,         \* the text handed to extract_coordinates_from_question
    extracted,        \* what extract_coordinates_from_question returned
    reasoning_steps,  \* the steps handed to map_reasoning_to_domain_space
    mapped,           \* what map_reasoning_to_domain_space returned
    made              \* what create_knowledge_tile returned for mapped

mapperVars == <<keyword_map, question, extracted, reasoning_steps, mapped, made>>

MapperIdle ==
    /\ keyword_map = <<>>
    /\ question = None
    /\ extracted = None
    /\ reasoning_steps = <<>>
    /\ mapped = None
    /\ made = None

VARIABLES
    turn_count,          \* SymbioticTwinEngineSystem.turn_count
    l0_reset_threshold,  \* SymbioticTwinEngineSystem.l0_reset_threshold
    active_engine,       \* which engine active_engine is, "EngineA" or "EngineB"
    passive_engine,      \* which engine passive_engine is
    active_memory,       \* the engine_name of the buffer active_memory is
    passive_memory,      \* the engine_name of the buffer passive_memory is
    sap,                 \* engine_name -> the list sap of that LocalMemoryBuffer
    turns,               \* caller -> where its process_user_input stands
    swaps                \* history: how many times l0_reset_and_swap has swapped

twinVars == <<turn_count, l0_reset_threshold, active_engine, passive_engine,
              active_memory, passive_memory, sap, turns, swaps>>

TwinIdle ==
    /\ turn_count = 0
    /\ l0_reset_threshold = 5
    /\ active_engine = "EngineA"
    /\ passive_engine = "EngineB"
    /\ active_memory = "EngineA"
    /\ passive_memory = "EngineB"
    /\ sap = <<>>
    /\ turns = <<>>
    /\ swaps = 0

VARIABLES
    current_generation,            \* NurseLogSystem.current_generation
    current_apprentice_state,      \* the StudentModelState of the apprentice
    generation_history,            \* NurseLogSystem.generation_history
    conversation_buffer,           \* NurseLogSystem.conversation_buffer
    is_dreaming,                   \* NurseLogSystem.is_dreaming
    mature_student_pool,           \* the generations of the models in the pool
    dream_interval_conversations,  \* constructor argument
    min_dream_cycles_for_inference, \* constructor argument
    dream_tasks,                   \* the dreaming_phase tasks created and not yet run
    conversations,                 \* caller -> where its process_conversation stands
    dreams                         \* history: the last dreaming phase that evaluated

nurseVars == <<current_generation, current_apprentice_state, generation_history,
               conversation_buffer, is_dreaming, mature_student_pool,
               dream_interval_conversations, min_dream_cycles_for_inference,
               dream_tasks, conversations, dreams>>

NoDream == [count |-> 0, confidence |-> 0, succession |-> FALSE, started |-> 0]

NurseIdle ==
    /\ current_generation = 1
    /\ current_apprentice_state = <<>>
    /\ generation_history = <<>>
    /\ conversation_buffer = <<>>
    /\ is_dreaming = FALSE
    /\ mature_student_pool = <<>>
    /\ dream_interval_conversations = 10
    /\ min_dream_cycles_for_inference = 3
    /\ dream_tasks = 0
    /\ conversations = <<>>
    /\ dreams = NoDream

VARIABLES
    threads    \* thread -> the call of LRUCache.get or __setitem__ it is in

raceVars == <<threads>>

RaceIdle == threads = <<>>

VARIABLES
    hot_cache,   \* the _cache of RunnerEngine.hot_cache
    runs,        \* task -> where its _fetch_db_coordinates stands
    running,     \* the task the event loop is running, 0 when it is running none
    fetch_log,   \* history: the coordinates db.fetch_async was called with
    launched     \* history: how many calls of _fetch_db_coordinates were made

runnerVars == <<hot_cache, runs, running, fetch_log, launched>>

RunnerIdle ==
    /\ hot_cache = <<>>
    /\ runs = <<>>
    /\ running = 0
    /\ fetch_log = <<>>
    /\ launched = 0

VARIABLES
    jpc,                 \* where process_and_correct stands
    max_regenerations,   \* argument of process_and_correct
    regeneration_count,  \* local variable of process_and_correct
    alpha_response,      \* local variable: the latest response of the alpha lobe
    alpha_calls,         \* history: calls of alpha_lobe.generate_response
    validations,         \* history: what beta_lobe.validate_response returned
    outcome              \* what process_and_correct returned

judgeVars == <<jpc, max_regenerations, regeneration_count, alpha_response,
               alpha_calls, validations, outcome>>

JudgeIdle ==
    /\ jpc = "idle"
    /\ max_regenerations = 1
    /\ regeneration_count = 0
    /\ alpha_response = None
    /\ alpha_calls = 0
    /\ validations = <<>>
    /\ outcome = None

restVars == <<runnerVars, judgeVars>>

RestIdle == RunnerIdle /\ JudgeIdle

extraVars == <<mapperVars, twinVars, nurseVars, raceVars, restVars>>

ExtraIdle == MapperIdle /\ TwinIdle /\ NurseIdle /\ RaceIdle /\ RestIdle

vars == <<cacheVars, codecVars, batchVars, storeVars, extraVars>>

CacheIdle ==
    /\ max_size = 1
    /\ cache = <<>>
    /\ lastOp = [op |-> "init", key |-> 0, value |-> 0, hit |-> FALSE]
    /\ ret = None
    /\ raised = FALSE
    /\ lastUse = <<>>
    /\ script = -1
    /\ lastSet = <<>>

NoHarm == [kind |-> "none", at |-> 0]

CodecIdle ==
    /\ tile = None
    /\ now = None
    /\ pc = "idle"
    /\ encoded = None
    /\ decoded = None
    /\ prevStatus = "none"
    /\ harm = NoHarm
    /\ again = None

BatchIdle ==
    /\ tiles = <<>>
    /\ domain_code = 1
    /\ file = None
    /\ damage = "none"
    /\ out = None
    /\ bpc = "idle"

NoCall == [op |-> "init", coordinate |-> <<0, 0, 0>>, tolerance |-> 0]

StoreIdle ==
    /\ source_tiles = <<>>
    /\ db_file = None
    /\ loaded_tiles = <<>>
    /\ index = <<>>
    /\ is_loaded = FALSE
    /\ loaded_file = None
    /\ loads = 0
    /\ rebuilds = 0
    /\ call = NoCall
    /\ result = None
    /\ escaped = None
    /\ readers = <<>>

\* ranks 1..n of the non-zero entries of f, order preserved
Normalize(f) ==
    [k \in DOMAIN f |->
        IF f[k] = 0 THEN 0
        ELSE Cardinality({j \in DOMAIN f : f[j] # 0 /\ f[j] <= f[k]})]

\* history update: key was used (if used), keys no longer cached are forgotten
Touch(f, key, used, c) ==
    LET top == Cardinality({j \in DOMAIN f : f[j] # 0}) + 1
        g == [k \in DOMAIN f |->
                IF ~HasKey(c, k) THEN 0
                ELSE IF used /\ k = key THEN top ELSE f[k]]
    IN  Normalize(g)

\* history update: key was set to value (if set); a key that is no longer in
\* the cache c has been evicted
Remember(f, key, value, set, c) ==
    [k \in DOMAIN f |->
        IF ~HasKey(c, k) THEN None
        ELSE IF set /\ k = key THEN Some(value) ELSE f[k]]

\* the usage example of hot_cache.py: set 1, 2, 3; get 1; contains 2; set 4
Example ==
    << [op |-> "set", key |-> 1], [op |-> "set", key |-> 2],
       [op |-> "set", key |-> 3], [op |-> "get", key |-> 1],
       [op |-> "contains", key |-> 2], [op |-> "set", key |-> 4] >>

Replay(op, key) ==
    IF script >= 0 /\ script < Len(Example) /\ max_size = 3
       /\ Example[script + 1] = [op |-> op, key |-> key]
    THEN script + 1
    ELSE -1

CacheInit ==
    /\ max_size \in 1..MaxCapacity
    /\ cache = <<>>
    /\ lastOp = [op |-> "init", key |-> 0, value |-> 0, hit |-> FALSE]
    /\ ret = None
    /\ raised = FALSE
    /\ lastUse = [k \in CacheKeys |-> 0]
    /\ script = 0
    /\ lastSet = [k \in CacheKeys |-> None]
    /\ CodecIdle /\ BatchIdle /\ StoreIdle /\ ExtraIdle

\* cache[key] = value
SetItem(key, value) ==
    LET r == LRU_setitem(cache, key, value, max_size)
    IN  /\ cache' = r.cache
        /\ ret' = r.ret
        /\ raised' = r.raised
        /\ lastOp' = [op |-> "set", key |-> key, value |-> value,
                      hit |-> HasKey(cache, key)]
        /\ lastUse' = Touch(lastUse, key, TRUE, cache')
        /\ script' = Replay("set", key)
        /\ lastSet' = Remember(lastSet, key, value, TRUE, cache')
        /\ UNCHANGED max_size

\* cache.get(key)
Get(key) ==
    LET r == LRU_get(cache, key, None)
    IN  /\ cache' = r.cache
        /\ ret' = r.ret
        /\ raised' = r.raised
        /\ lastOp' = [op |-> "get", key |-> key, value |-> 0,
                      hit |-> HasKey(cache, key)]
        /\ lastUse' = Touch(lastUse, key, HasKey(cache, key), cache')
        /\ script' = Replay("get", key)
        /\ lastSet' = Remember(lastSet, key, 0, FALSE, cache')
        /\ UNCHANGED max_size

\* key in cache
Contains(key) ==
    LET r == LRU_contains(cache, key)
    IN  /\ cache' = r.cache
        /\ ret' = r.ret
        /\ raised' = r.raised
        /\ lastOp' = [op |-> "contains", key |-> key, value |-> 0,
                      hit |-> HasKey(cache, key)]
        /\ lastUse' = Touch(lastUse, key, FALSE, cache')
        /\ script' = Replay("contains", key)
        /\ lastSet' = Remember(lastSet, key, 0, FALSE, cache')
        /\ UNCHANGED max_size

CacheNext ==
    /\ \/ \E key \in CacheKeys, value \in CacheValues : SetItem(key, value)
       \/ \E key \in CacheKeys : Get(key)
       \/ \E key \in CacheKeys : Contains(key)
    /\ UNCHANGED <<codecVars, batchVars, storeVars, extraVars>>

SpecCache == CacheInit /\ [][CacheNext]_vars

(***************************************************************************)
(* Round trip of one tile: encode_tile, then decode_tile, then an update   *)
(* of the status by the verification pipeline and another round trip.      *)
(***************************************************************************)
\* str values: "a", "b", "r", "a\0b", "\0", an e with acute accent (2 bytes
\* of UTF-8), hiragana a (3 bytes), ""
StrA == <<97>>
StrB == <<98>>
StrR == <<114>>
StrNulInside == <<97, 0, 98>>
StrNul == <<0>>
StrAccent == <<233>>
StrKana == <<12354, 97>>

\* "2024-01-01T00:00:00.000000Z" and "2025-06-30T12:00:00.000001"
Stamp27 ==
    << 50, 48, 50, 52, 45, 48, 49, 45, 48, 49, 84, 48, 48, 58, 48, 48, 58,
       48, 48, 46, 48, 48, 48, 48, 48, 48, 90 >>

NowIso ==
    << 50, 48, 50, 53, 45, 48, 54, 45, 51, 48, 84, 49, 50, 58, 48, 48, 58,
       48, 48, 46, 48, 48, 48, 48, 48, 49 >>

\* one microsecond later: "2025-06-30T12:00:00.000002"
LaterIso == [NowIso EXCEPT ![Len(NowIso)] = 50]

CodecIds == {StrA, StrNulInside, StrAccent}
CodecTopics == {StrB, StrNul, StrKana}
CodecCreatedAt == {None, Some(Stamp27)}
\* domain-space triples in halves: (0, 0.5, 100), (-1.5, 28, 35), and one
\* with 16777217.0, which no binary32 float equals, and one with nan
CodecDomainSpace == {<<0, 1, 200>>, <<-3, 56, 70>>, <<33554434, 0, 0>>, <<NaN, 0, 0>>}
\* meta-space triples in halves: (85, 1, 0.5), one with 8388608.5 and one
\* with -inf
CodecMetaSpace == {<<170, 2, 1>>, <<16777217, 2, 0>>, <<170, -Inf, 1>>}
CodecContents ==
    { [thinking_process |-> <<>>, final_response |-> StrAccent],
      [thinking_process |-> StrNulInside, final_response |-> StrKana] }
CodecCertainty == {-1, 85, 150, 256}

CodecTiles ==
    { [ metadata |-> [knowledge_id |-> id, topic |-> topic, created_at |-> ca],
        coordinates |-> [medical_space |-> ds, meta_space |-> ms],
        content |-> ct,
        verification |-> [status |-> StatusNames[st], initial_certainty |-> ce,
                          reviewers |-> <<StrR>>] ] :
      id \in CodecIds, topic \in CodecTopics, ca \in CodecCreatedAt,
      ds \in CodecDomainSpace, ms \in CodecMetaSpace, ct \in CodecContents,
      ce \in CodecCertainty, st \in 1..Len(StatusNames) }

\* str(uuid.uuid4())
Uuid ==
    << 51, 102, 50, 98, 56, 99, 49, 101, 45, 57, 100, 52, 97, 45, 52, 101, 54,
       98, 45, 56, 97, 55, 99, 45, 53, 100, 49, 102, 48, 101, 50, 97, 57, 98,
       51, 99 >>

\* one entry of the list CoordinateMapper.map_reasoning_to_domain_space
\* returns: medical_space a tuple of three numbers, meta_space (c, g, v)
\* with c = int(confidence * 100), g a granularity in 1..1000 and v = 50.0,
\* all in halves
MapperStep(sequence, text, medical_space, c, g) ==
    [ step_sequence |-> sequence,
      reasoning_text |-> text,
      coordinate |-> [medical_space |-> medical_space,
                      meta_space |-> <<2 * c, 2 * g, 100>>],
      concept_tags |-> <<>>,
      confidence |-> c ]

MapperOutputs ==
    { << MapperStep(0, StrA, <<100, 100, 100>>, 85, 1) >>,
      << MapperStep(0, StrA, <<56, 70, 30>>, 60, 200),
         MapperStep(1, StrB, <<100, 70, 30>>, 35, 1) >> }

\* responses of the model: "bunken" + "A b", the guidelines, no thinking
DeepseekResponses ==
    { [thinking |-> Some(StrKana), response |-> Some(<<25991, 29486, 65, 32, 98>>)],
      [thinking |-> Some(StrA),
       response |-> Some(<<12460, 12452, 12489, 12521, 12452, 12531>>)],
      [thinking |-> None, response |-> Some(StrAccent)] }

GeneratedTiles ==
    { create_knowledge_tile(r, c, StrKana, "intermediate", Uuid, NowIso).val :
        r \in DeepseekResponses, c \in MapperOutputs }

CodecInit ==
    /\ tile \in CodecTiles \cup GeneratedTiles
    /\ now = NowIso
    /\ pc = "tile"
    /\ encoded = None
    /\ decoded = None
    /\ prevStatus = "none"
    /\ harm = NoHarm
    /\ again = None
    /\ CacheIdle /\ BatchIdle /\ StoreIdle /\ ExtraIdle

EncodeTile ==
    /\ pc = "tile"
    /\ encoded' = encode_tile(tile, now)
    /\ pc' = IF encoded'.ok THEN "encoded" ELSE "failed"
    /\ UNCHANGED <<tile, now, decoded, prevStatus, harm, again>>

DecodeTile ==
    /\ pc = "encoded"
    /\ decoded' = decode_tile(encoded.val)
    /\ pc' = "decoded"
    /\ UNCHANGED <<tile, now, encoded, prevStatus, harm, again>>

\* encode_tile is called once more on the same tile, at the time t
EncodeAgain(t) ==
    /\ pc = "encoded"
    /\ now' = t
    /\ again' = encode_tile(tile, now')
    /\ pc' = "twice"
    /\ UNCHANGED <<tile, encoded, decoded, prevStatus, harm>>

\* the verification pipeline replaces the tile by one with another status;
\* the codec has no say in which status may follow which
UpdateStatus(status) ==
    /\ pc = "decoded"
    /\ prevStatus = "none"
    /\ tile' = [tile EXCEPT !.verification.status = status]
    /\ prevStatus' = tile.verification.status
    /\ pc' = "tile"
    /\ encoded' = None
    /\ decoded' = None
    /\ UNCHANGED <<now, harm, again>>

CodecNext ==
    /\ \/ EncodeTile
       \/ DecodeTile
       \/ \E t \in {NowIso, LaterIso} : EncodeAgain(t)
       \/ \E i \in 1..Len(StatusNames) : UpdateStatus(StatusNames[i])
    /\ UNCHANGED <<cacheVars, batchVars, storeVars, extraVars>>

SpecCodec == CodecInit /\ [][CodecNext]_vars

(***************************************************************************)
(* decode_tile on bytes that are not what encode_tile wrote: the           *)
(* decompressed buffer cut short, a byte of a text made invalid UTF-8, or  *)
(* a compressed stream that is no complete frame.                          *)
(***************************************************************************)
TamperTiles ==
    { t \in CodecTiles :
        /\ t.metadata.knowledge_id # StrNulInside
        /\ t.metadata.topic # StrNul
        /\ t.metadata.created_at # None
        /\ t.coordinates = [medical_space |-> <<0, 1, 200>>, meta_space |-> <<170, 2, 1>>]
        /\ t.verification.initial_certainty = 85
        /\ t.verification.status = "verified" }

TamperInit ==
    /\ tile \in TamperTiles
    /\ now = NowIso
    /\ pc = "tile"
    /\ encoded = None
    /\ decoded = None
    /\ prevStatus = "none"
    /\ harm = NoHarm
    /\ again = None
    /\ CacheIdle /\ BatchIdle /\ StoreIdle /\ ExtraIdle

\* what encode_tile handed to the compressor
Uncompressed == ZstdDecompress(encoded.val).val

\* the 1-based places of the decompressed buffer that hold the bytes of
\* knowledge_id, topic, created_at, thinking_process and final_response
TextPlaces(t) ==
    LET Places(kid, topic, created_at, thinking, response) ==
            LET md == kid + 1 + topic + 1 + created_at
                ct == 4 + md + 4 + 24 + 4
            IN  (5..(4 + kid))
                \cup ((4 + kid + 2)..(4 + kid + 1 + topic))
                \cup ((4 + kid + 1 + topic + 2)..(4 + md))
                \cup ((ct + 5)..(ct + 4 + thinking))
                \cup ((ct + 4 + thinking + 5)..(ct + 4 + thinking + 4 + response))
    IN  Places(Len(Utf8Encode(t.metadata.knowledge_id)),
               Len(Utf8Encode(t.metadata.topic)),
               Min(Len(t.metadata.created_at[1]), CreatedAtWidth),
               Len(Utf8Encode(t.content.thinking_process)),
               Len(Utf8Encode(t.content.final_response)))

\* the decompressed buffer stops after its first n bytes
Truncate(n) ==
    /\ pc = "encoded" /\ harm = NoHarm
    /\ n < Len(Uncompressed)
    /\ encoded' = Ok(ZstdCompress(SubSeq(Uncompressed, 1, n)))
    /\ harm' = [kind |-> "cut", at |-> n]
    /\ UNCHANGED <<tile, now, pc, decoded, prevStatus, again>>

\* byte n of a text becomes 0xFF, which no UTF-8 (or ASCII) text contains
BreakText(n) ==
    /\ pc = "encoded" /\ harm = NoHarm
    /\ n \in TextPlaces(tile)
    /\ encoded' = Ok(ZstdCompress([Uncompressed EXCEPT ![n] = 255]))
    /\ harm' = [kind |-> "utf8", at |-> n]
    /\ UNCHANGED <<tile, now, pc, decoded, prevStatus, again>>

\* the compressed stream loses its end, or its magic number
BreakStream(n) ==
    /\ pc = "encoded" /\ harm = NoHarm
    /\ n < Len(encoded.val)
    /\ encoded' = Ok(IF n = 0 THEN [encoded.val EXCEPT ![1] = 0]
                     ELSE SubSeq(encoded.val, 1, n))
    /\ harm' = [kind |-> "stream", at |-> n]
    /\ UNCHANGED <<tile, now, pc, decoded, prevStatus, again>>

\* a bound on the length of the buffers of TamperTiles
MaxBuffer == 160

TamperNext ==
    /\ \/ EncodeTile
       \/ \E n \in 0..MaxBuffer : Truncate(n)
       \/ \E n \in 1..MaxBuffer : BreakText(n)
       \/ \E n \in 0..MaxBuffer : BreakStream(n)
       \/ DecodeTile
    /\ UNCHANGED <<cacheVars, batchVars, storeVars, extraVars>>

SpecTamper == TamperInit /\ [][TamperNext]_vars

(***************************************************************************)
(* A database file: encode_batch writes it, something may damage it,       *)
(* decode_batch reads it.                                                  *)
(***************************************************************************)
MaxBatch == 2

\* "t0"
StampShort == <<116, 48>>

\* an e with acute accent followed by a double quote
StrQuote == <<233, 34>>

BatchIds == {<<>>, StrA, StrNulInside, StrQuote}
BatchResponses == {StrAccent, StrA}

BatchTiles ==
    { [ metadata |-> [knowledge_id |-> id, topic |-> StrB,
                      created_at |-> Some(StampShort)],
        coordinates |-> [medical_space |-> <<0, 1, 200>>,
                         meta_space |-> <<170, 2, 1>>],
        content |-> [thinking_process |-> <<>>, final_response |-> resp],
        verification |-> [status |-> "verified", initial_certainty |-> 85,
                          reviewers |-> <<>>] ] :
      id \in BatchIds, resp \in BatchResponses }

ListsOf(S, n) == UNION {[1..k -> S] : k \in 0..n}

BatchInit ==
    /\ tiles \in ListsOf(BatchTiles, MaxBatch)
    /\ domain_code \in {1, 2}
    /\ file = None
    /\ damage = "none"
    /\ out = None
    /\ bpc = "tiles"
    /\ now = NowIso
    /\ tile = None /\ pc = "idle" /\ encoded = None /\ decoded = None
    /\ prevStatus = "none" /\ harm = NoHarm /\ again = None
    /\ CacheIdle /\ StoreIdle /\ ExtraIdle

EncodeBatch ==
    /\ bpc = "tiles"
    /\ LET r == encode_batch(tiles, domain_code, now)
       IN  /\ file' = IF r.ok THEN r.val ELSE file
           /\ bpc' = IF r.ok THEN "file" ELSE "failed"
    /\ UNCHANGED <<tiles, domain_code, damage, out>>

\* the n-th byte of b (counted from 1) replaced by 0xFF
Smash(b, n) == [b EXCEPT ![n] = 255]

\* the place in the file (counted from 1) of the first byte of the blob the
\* i-th index record points at
BlobStart(f, i) == HeaderOf(f).data_offset + IndexOf(f).val[i].offset + 1

\* the file is cut to 63 bytes
DamageShort ==
    /\ damage' = "short"
    /\ file' = SubSeq(file, 1, header_size - 1)

\* the first byte of the magic number is overwritten
DamageMagic ==
    /\ damage' = "magic"
    /\ file' = Smash(file, 1)

\* the first byte of the index is overwritten: the index is no UTF-8
DamageIndexByte ==
    /\ damage' = "index_byte"
    /\ file' = Smash(file, header_size + 1)

\* the file is cut after the first byte of the index: the index is no JSON
DamageIndexCut ==
    /\ damage' = "index_cut"
    /\ file' = SubSeq(file, 1, header_size + 1)

\* the first byte of the blob of the i-th index record is overwritten
DamageBlob(i) ==
    /\ i <= Len(IndexOf(file).val)
    /\ damage' = IF i = 1 THEN "blob_1" ELSE "blob_n"
    /\ file' = Smash(file, BlobStart(file, i))

\* the file loses its last byte, which belongs to the last blob
DamageFileCut ==
    /\ Len(IndexOf(file).val) > 0
    /\ damage' = "file_cut"
    /\ file' = SubSeq(file, 1, Len(file) - 1)

\* the checksum field is bytes 10..41 of the header, counted from 0: its
\* first, its seventeenth and its last byte, counted from 1
ChecksumPlaces == {11, 27, 42}

\* the n-th byte of the file, a byte of the checksum field, is overwritten
DamageChecksum(n) ==
    /\ damage' = "checksum"
    /\ file' = Smash(file, n)

DamageFile ==
    /\ bpc = "file"
    /\ damage = "none"
    /\ \/ DamageShort
       \/ DamageMagic
       \/ DamageIndexByte
       \/ DamageIndexCut
       \/ \E i \in 1..MaxBatch : DamageBlob(i)
       \/ DamageFileCut
       \/ \E n \in ChecksumPlaces : DamageChecksum(n)
    /\ UNCHANGED <<tiles, domain_code, out, bpc>>

DecodeBatch ==
    /\ bpc = "file"
    /\ out' = decode_batch(file)
    /\ bpc' = "decoded"
    /\ UNCHANGED <<tiles, domain_code, file, damage>>

BatchNext ==
    /\ \/ EncodeBatch
       \/ DamageFile
       \/ DecodeBatch
    /\ UNCHANGED <<cacheVars, tile, now, pc, encoded, decoded, prevStatus, harm,
                   again, storeVars, extraVars>>

SpecBatch == BatchInit /\ [][BatchNext]_vars

(***************************************************************************)
(* A store: an IathDBInterface on a database file that encode_batch wrote. *)
(* load_db and fetch_async are called in any order; the file may be        *)
(* rebuilt from other tiles between two calls.                             *)
(***************************************************************************)
MaxTiles == 3
MaxLoads == 2
MaxRebuilds == 1

StrC == <<99>>

\* the tile with this id at the domain-space coordinate x (in halves)
StoreTile(id, x) ==
    [ metadata |-> [knowledge_id |-> id, topic |-> StrB,
                    created_at |-> Some(StampShort)],
      coordinates |-> [medical_space |-> x, meta_space |-> <<170, 2, 1>>],
      content |-> [thinking_process |-> <<>>, final_response |-> StrA],
      verification |-> [status |-> "verified", initial_certainty |-> 85,
                        reviewers |-> <<>>] ]

\* a at (0,0,0), b at (50,50,50), c at (100,100,100), a at (10,10,10),
\* b at (12,12,12), c at (0.5,0,0)
StoreTiles ==
    { StoreTile(StrA, <<0, 0, 0>>), StoreTile(StrB, <<100, 100, 100>>),
      StoreTile(StrC, <<200, 200, 200>>), StoreTile(StrA, <<20, 20, 20>>),
      StoreTile(StrB, <<24, 24, 24>>), StoreTile(StrC, <<1, 0, 0>>) }

\* the lists a rebuild writes
RebuildLists == { <<StoreTile(StrB, <<24, 24, 24>>)>>, <<>> }

\* (12,12,12), (20,20,20), (51,49,50) and (13,14,10), which is at distance
\* 5 from (10,10,10)
Queries == { <<24, 24, 24>>, <<40, 40, 40>>, <<102, 98, 100>>, <<26, 28, 20>> }

\* 5 and 3
Tolerances == {10, 6}

FileOf(ts) == encode_batch(ts, 1, NowIso).val

Self == [loaded_tiles |-> loaded_tiles, index |-> index, is_loaded |-> is_loaded]

StoreInit ==
    /\ source_tiles \in ListsOf(StoreTiles, MaxTiles)
    /\ db_file \in {None, Some(FileOf(source_tiles)),
                    Some(Smash(FileOf(source_tiles), 1))}
    /\ loaded_tiles = <<>>
    /\ index = <<>>
    /\ is_loaded = FALSE
    /\ loaded_file = None
    /\ loads = 0
    /\ rebuilds = 0
    /\ call = NoCall
    /\ result = None
    /\ escaped = None
    /\ readers = <<>>
    /\ now = NowIso
    /\ tile = None /\ pc = "idle" /\ encoded = None /\ decoded = None
    /\ prevStatus = "none" /\ harm = NoHarm /\ again = None
    /\ CacheIdle /\ BatchIdle /\ ExtraIdle

\* db.load_db()
LoadDb ==
    /\ loads < MaxLoads
    /\ LET r == load_db(Self, db_file)
       IN  /\ loaded_tiles' = r.self.loaded_tiles
           /\ index' = r.self.index
           /\ is_loaded' = r.self.is_loaded
           /\ result' = Some(r.ret)
           /\ escaped' = r.raised
           /\ loads' = IF r.ret THEN loads + 1 ELSE loads
           /\ loaded_file' = IF r.ret THEN db_file ELSE loaded_file
    /\ call' = [op |-> "load", coordinate |-> <<0, 0, 0>>, tolerance |-> 0]
    /\ UNCHANGED <<source_tiles, db_file, rebuilds, readers>>

\* await db.fetch_async(coordinate, tolerance)
Fetch(coordinate, tolerance) ==
    /\ LET r == fetch_async(Self, db_file, coordinate, tolerance)
       IN  /\ loaded_tiles' = r.self.loaded_tiles
           /\ index' = r.self.index
           /\ is_loaded' = r.self.is_loaded
           /\ result' = r.ret
           /\ escaped' = r.raised
           /\ loads' = IF r.self.is_loaded /\ ~is_loaded THEN loads + 1 ELSE loads
           /\ loaded_file' = IF r.self.is_loaded /\ ~is_loaded THEN db_file
                             ELSE loaded_file
    /\ call' = [op |-> "fetch", coordinate |-> coordinate, tolerance |-> tolerance]
    /\ UNCHANGED <<source_tiles, db_file, rebuilds, readers>>

\* upstream rebuilds the file from another list of tiles
Rebuild(ts) ==
    /\ rebuilds < MaxRebuilds
    /\ ts # source_tiles
    /\ source_tiles' = ts
    /\ db_file' = Some(FileOf(ts))
    /\ rebuilds' = rebuilds + 1
    /\ call' = [op |-> "rebuild", coordinate |-> <<0, 0, 0>>, tolerance |-> 0]
    /\ result' = None
    /\ escaped' = None
    /\ UNCHANGED <<loaded_tiles, index, is_loaded, loaded_file, loads, readers>>

\* the file is deleted, or its magic number or the first byte of its index
\* is overwritten
Spoil(how) ==
    /\ rebuilds < MaxRebuilds
    /\ db_file # None
    /\ Len(db_file[1]) > header_size
    /\ db_file' = CASE how = "missing" -> None
                    [] how = "magic" -> Some(Smash(db_file[1], 1))
                    [] how = "index" -> Some(Smash(db_file[1], header_size + 1))
    /\ rebuilds' = rebuilds + 1
    /\ call' = [op |-> "spoil", coordinate |-> <<0, 0, 0>>, tolerance |-> 0]
    /\ result' = None
    /\ escaped' = None
    /\ UNCHANGED <<source_tiles, loaded_tiles, index, is_loaded, loaded_file, loads,
                   readers>>

StoreNext ==
    /\ \/ LoadDb
       \/ \E coordinate \in Queries, tolerance \in Tolerances :
             Fetch(coordinate, tolerance)
       \/ \E ts \in RebuildLists : Rebuild(ts)
       \/ \E how \in {"missing", "magic", "index"} : Spoil(how)
    /\ UNCHANGED <<cacheVars, codecVars, batchVars, extraVars>>

SpecStore == StoreInit /\ [][StoreNext]_vars

(***************************************************************************)
(* SpecReaders: a store that has loaded its file is read by concurrent     *)
(* calls of fetch_async, search_by_keyword and get_stats.  fetch_async     *)
(* runs _search_coordinate in an executor thread, and the other two are    *)
(* plain methods any thread may call; the threads interleave between two   *)
(* turns of their for loops.                                               *)
(***************************************************************************)
NumReaders == 2

\* a tile with the certainty c (in halves) and the final_response text
ReaderTile(id, x, c, text) ==
    [ metadata |-> [knowledge_id |-> id, topic |-> StrB,
                    created_at |-> Some(StampShort)],
      coordinates |-> [medical_space |-> x, meta_space |-> <<c, 2, 1>>],
      content |-> [thinking_process |-> <<>>, final_response |-> text],
      verification |-> [status |-> "verified", initial_certainty |-> 85,
                        reviewers |-> <<>>] ]

\* "aB" with certainty 85, "b" with 60 and "Ab" with 100; "\u00c9" with 85
\* and "c" with 85.5; no tile
ReaderLists ==
    { << ReaderTile(StrA, <<0, 0, 0>>, 170, <<97, 66>>),
         ReaderTile(StrB, <<24, 24, 24>>, 120, <<98>>),
         ReaderTile(StrC, <<20, 20, 20>>, 200, <<65, 98>>) >>,
      << ReaderTile(StrA, <<20, 20, 20>>, 170, <<201>>),
         ReaderTile(StrB, <<24, 24, 24>>, 171, <<99>>) >>,
      \* "b", with the topic "ab" and the thinking_process "AB"; "cAbc"
      << [ReaderTile(StrA, <<0, 0, 0>>, 170, <<98>>)
             EXCEPT !.metadata.topic = <<97, 98>>,
                    !.content.thinking_process = <<65, 66>>],
         ReaderTile(StrB, <<24, 24, 24>>, 170, <<99, 65, 98, 99>>) >>,
      << >> }

\* (12,12,12) and (51,49,50), with tolerance 5
ReaderQueries == { <<24, 24, 24>>, <<102, 98, 100>> }

\* "AB" and "\u00e9"
Keywords == { <<65, 66>>, <<233>> }

\* the calls a reader makes
ReaderCalls ==
    { [IdleReader EXCEPT !.op = "fetch", !.coordinate = q, !.tolerance = 10] :
        q \in ReaderQueries }
    \cup { [IdleReader EXCEPT !.op = "keyword", !.keyword = k] : k \in Keywords }
    \cup { [IdleReader EXCEPT !.op = "stats"] }

ReadersInit ==
    /\ source_tiles \in ReaderLists
    /\ db_file = Some(FileOf(source_tiles))
    /\ LET Loaded(l) ==
               /\ l.ret
               /\ loaded_tiles = l.self.loaded_tiles
               /\ index = l.self.index
               /\ is_loaded = l.self.is_loaded
       IN  Loaded(load_db([loaded_tiles |-> <<>>, index |-> <<>>,
                           is_loaded |-> FALSE], db_file))
    /\ loaded_file = db_file
    /\ loads = 1
    /\ rebuilds = 0
    /\ call = [op |-> "load", coordinate |-> <<0, 0, 0>>, tolerance |-> 0]
    /\ result = Some(TRUE)
    /\ escaped = None
    /\ readers = [r \in 1..NumReaders |-> IdleReader]
    /\ now = NowIso
    /\ tile = None /\ pc = "idle" /\ encoded = None /\ decoded = None
    /\ prevStatus = "none" /\ harm = NoHarm /\ again = None
    /\ CacheIdle /\ BatchIdle /\ ExtraIdle

\* what a step of the reader r does to the reader and to the store
ReaderMoves(r, after) ==
    /\ readers' = [readers EXCEPT ![r] = after.reader]
    /\ loaded_tiles' = after.self.loaded_tiles
    /\ index' = after.self.index
    /\ is_loaded' = after.self.is_loaded
    /\ UNCHANGED <<source_tiles, db_file, loaded_file, loads, rebuilds, call,
                   result, escaped>>

\* the reader r, idle or back from its last call, starts the call c
Begin(r, c) ==
    /\ readers[r].state \in {"idle", "done"}
    /\ ReaderMoves(r, Enter(c, Self, db_file))

\* the reader r runs one turn of its loop
Step(r) ==
    /\ readers[r].state = "running"
    /\ ReaderMoves(r, Visit(readers[r], Self, db_file))

ReadersNext ==
    /\ \/ \E r \in 1..NumReaders, c \in ReaderCalls : Begin(r, c)
       \/ \E r \in 1..NumReaders : Step(r)
    /\ UNCHANGED <<cacheVars, codecVars, batchVars, extraVars>>

SpecReaders == ReadersInit /\ [][ReadersNext]_vars

(***************************************************************************)
(* SpecMapper: a question is turned into a point, the steps of a reasoning *)
(* chain are mapped, and a tile is made of the mapped steps.               *)
(***************************************************************************)
\* "a" -> x 20, "ab" -> x 70, "b" -> y 30, "c" -> z 10, "b c" -> z 90;
\* "b" -> y 30, "a" -> y 5; no keyword
KeywordMaps ==
    { << [k |-> <<97>>, v |-> [axis |-> "x", coord |-> 40]],
         [k |-> <<97, 98>>, v |-> [axis |-> "x", coord |-> 140]],
         [k |-> <<98>>, v |-> [axis |-> "y", coord |-> 60]],
         [k |-> <<99>>, v |-> [axis |-> "z", coord |-> 20]],
         [k |-> <<98, 32, 99>>, v |-> [axis |-> "z", coord |-> 180]] >>,
      << [k |-> <<98>>, v |-> [axis |-> "y", coord |-> 60]],
         [k |-> <<97>>, v |-> [axis |-> "y", coord |-> 10]] >>,
      << >> }

\* "", "a", "ab", "b", "c", "d", "d ab c"
MapperTexts ==
    { <<>>, <<97>>, <<97, 98>>, <<98>>, <<99>>, <<100>>,
      <<100, 32, 97, 98, 32, 99>> }

MaxSteps == 2

\* the reasoning chains: step i has the sequence number i - 1
ReasoningChains ==
    UNION { { [i \in 1..n |->
                 [sequence |-> i - 1, text |-> texts[i],
                  confidence |-> IF i = 1 THEN 85 ELSE 35, concepts |-> <<>>]] :
              texts \in [1..n -> MapperTexts \ {<<>>}] } : n \in 0..MaxSteps }

MapperInit ==
    /\ keyword_map \in KeywordMaps
    /\ reasoning_steps \in ReasoningChains
    /\ question = None
    /\ extracted = None
    /\ mapped = None
    /\ made = None
    /\ CacheIdle /\ CodecIdle /\ BatchIdle /\ StoreIdle
    /\ TwinIdle /\ NurseIdle /\ RaceIdle /\ RestIdle

\* engine.extract_coordinates_from_question(q)
ExtractPoint(q) ==
    /\ question' = Some(q)
    /\ extracted' = Some(extract_coordinates_from_question(keyword_map, q,
                                                          <<100, 100, 100>>))
    /\ UNCHANGED <<keyword_map, reasoning_steps, mapped, made>>

\* mapper.map_reasoning_to_domain_space(reasoning_steps)
MapPath ==
    /\ mapped = None
    /\ mapped' = Some(map_reasoning_to_domain_space(keyword_map, reasoning_steps))
    /\ UNCHANGED <<keyword_map, reasoning_steps, question, extracted, made>>

\* create_knowledge_tile(response, coordinates, topic)
MakeTile ==
    /\ mapped # None
    /\ made = None
    /\ made' = Some(create_knowledge_tile(
                      [thinking |-> Some(StrA), response |-> Some(StrB)],
                      mapped[1], StrKana, "intermediate", Uuid, NowIso))
    /\ UNCHANGED <<keyword_map, reasoning_steps, question, extracted, mapped>>

MapperNext ==
    /\ \/ \E q \in MapperTexts : ExtractPoint(q)
       \/ MapPath
       \/ MakeTile
    /\ UNCHANGED <<cacheVars, codecVars, batchVars, storeVars>>
    /\ UNCHANGED <<twinVars, nurseVars, raceVars, restVars>>

SpecMapper == MapperInit /\ [][MapperNext]_vars

(***************************************************************************)
(* SpecTwin: callers await process_user_input; a call stands at the        *)
(* asyncio.gather of the two inferences, or at the inference that ends     *)
(* l0_reset_and_swap, and other calls run meanwhile.                       *)
(***************************************************************************)
MaxTurns == 7
MaxThreshold == 3
NumCallers == 2

\* what DeepSeekR1Engine.infer answers under "response": a text, or "" when
\* the call of the model failed
InferResponses == {StrB, <<>>}

TwinSelf ==
    [turn_count |-> turn_count, l0_reset_threshold |-> l0_reset_threshold,
     active_engine |-> active_engine, passive_engine |-> passive_engine,
     active_memory |-> active_memory, passive_memory |-> passive_memory,
     sap |-> sap]

IdleTurn == [pc |-> "idle", user_input |-> <<>>, engine |-> "none"]

TwinInit ==
    /\ turn_count = 0
    /\ l0_reset_threshold \in 1..MaxThreshold
    /\ active_engine = "EngineA"
    /\ passive_engine = "EngineB"
    /\ active_memory = "EngineA"
    /\ passive_memory = "EngineB"
    /\ sap = [n \in {"EngineA", "EngineB"} |-> <<>>]
    /\ turns = [c \in 1..NumCallers |-> IdleTurn]
    /\ swaps = 0
    /\ CacheIdle /\ CodecIdle /\ BatchIdle /\ StoreIdle
    /\ MapperIdle /\ NurseIdle /\ RaceIdle /\ RestIdle

\* the number of calls that have been started
Started == turn_count + Cardinality({c \in 1..NumCallers : turns[c].pc = "gather"})

\* process_user_input(user_input) up to await asyncio.gather(...): the
\* inference of the engine that is active now is under way
StartTurn(c, user_input) ==
    /\ turns[c].pc = "idle"
    /\ Started < MaxTurns
    /\ turns' = [turns EXCEPT ![c] = [pc |-> "gather", user_input |-> user_input,
                                      engine |-> active_engine]]
    /\ UNCHANGED <<turn_count, l0_reset_threshold, active_engine, passive_engine,
                   active_memory, passive_memory, sap, swaps>>

\* the two inferences have answered: the results are recorded, the turn is
\* counted, and at a multiple of the threshold the roles are exchanged
FinishTurn(c, active_response, passive_insights) ==
    /\ turns[c].pc = "gather"
    /\ LET Done(r) ==
              /\ turn_count' = r.self.turn_count
              /\ active_engine' = r.self.active_engine
              /\ passive_engine' = r.self.passive_engine
              /\ active_memory' = r.self.active_memory
              /\ passive_memory' = r.self.passive_memory
              /\ sap' = r.self.sap
              /\ swaps' = IF r.swapped THEN swaps + 1 ELSE swaps
              /\ turns' = [turns EXCEPT ![c] =
                             IF r.swapped THEN [@ EXCEPT !.pc = "summary"]
                             ELSE IdleTurn]
       IN  Done(RecordTurn(TwinSelf, turns[c].user_input, active_response,
                           passive_insights))
    /\ UNCHANGED l0_reset_threshold

\* the new active engine has answered the summary prompt
FinishSwap(c) ==
    /\ turns[c].pc = "summary"
    /\ turns' = [turns EXCEPT ![c] = IdleTurn]
    /\ UNCHANGED <<turn_count, l0_reset_threshold, active_engine, passive_engine,
                   active_memory, passive_memory, sap, swaps>>

TwinNext ==
    /\ \/ \E c \in 1..NumCallers : StartTurn(c, StrA)
       \/ \E c \in 1..NumCallers, a, b \in InferResponses : FinishTurn(c, a, b)
       \/ \E c \in 1..NumCallers : FinishSwap(c)
    /\ UNCHANGED <<cacheVars, codecVars, batchVars, storeVars>>
    /\ UNCHANGED <<mapperVars, nurseVars, raceVars, restVars>>

SpecTwin == TwinInit /\ [][TwinNext]_vars

(***************************************************************************)
(* SpecNurse: callers await process_conversation on one event loop; the    *)
(* dreaming_phase tasks it creates run when the loop gets to them.  A      *)
(* caller that has its answer may sleep and then look at is_dreaming, as   *)
(* the test does.                                                          *)
(***************************************************************************)
MaxConversations == 6
MaxInterval == 2

NurseSelf ==
    [current_generation |-> current_generation,
     current_apprentice_state |-> current_apprentice_state,
     generation_history |-> generation_history,
     conversation_buffer |-> conversation_buffer,
     is_dreaming |-> is_dreaming,
     mature_student_pool |-> mature_student_pool,
     dream_interval_conversations |-> dream_interval_conversations,
     min_dream_cycles_for_inference |-> min_dream_cycles_for_inference]

IdleConversation == [pc |-> "idle", created |-> FALSE, saw |-> FALSE]

NurseInit ==
    /\ current_generation = 1
    /\ current_apprentice_state = StudentModelState(1)
    /\ generation_history = <<>>
    /\ conversation_buffer = <<>>
    /\ is_dreaming = FALSE
    /\ mature_student_pool = <<>>
    /\ dream_interval_conversations \in 1..MaxInterval
    /\ min_dream_cycles_for_inference \in {1, 3}
    /\ dream_tasks = 0
    /\ conversations = [c \in 1..NumCallers |-> IdleConversation]
    /\ dreams = NoDream
    /\ CacheIdle /\ CodecIdle /\ BatchIdle /\ StoreIdle
    /\ MapperIdle /\ TwinIdle /\ RaceIdle /\ RestIdle

\* the fields of the system become those of the record s
NurseBecomes(s) ==
    /\ current_generation' = s.current_generation
    /\ current_apprentice_state' = s.current_apprentice_state
    /\ generation_history' = s.generation_history
    /\ conversation_buffer' = s.conversation_buffer
    /\ is_dreaming' = s.is_dreaming
    /\ mature_student_pool' = s.mature_student_pool
    /\ UNCHANGED <<dream_interval_conversations, min_dream_cycles_for_inference>>

\* process_conversation(user_input) up to the await of the inference
StartConversation(c) ==
    /\ conversations[c].pc # "infer"
    /\ dreams.started < MaxConversations
    /\ conversations' = [conversations EXCEPT ![c] =
                            [IdleConversation EXCEPT !.pc = "infer"]]
    /\ dreams' = [dreams EXCEPT !.started = @ + 1]
    /\ NurseBecomes(IF mature_student_pool # <<>> THEN NurseSelf
                    ELSE _is_apprentice_mature(NurseSelf).self)
    /\ UNCHANGED dream_tasks

\* the inference has answered: process_conversation runs to its return
FinishConversation(c) ==
    /\ conversations[c].pc = "infer"
    /\ LET Done(r) ==
              /\ NurseBecomes(r.self)
              /\ dream_tasks' = IF r.create_task THEN dream_tasks + 1 ELSE dream_tasks
              /\ conversations' = [conversations EXCEPT ![c] =
                                      [pc |-> "returned", created |-> r.create_task,
                                       saw |-> FALSE]]
       IN  Done(RecordConversation(NurseSelf, StrA))
    /\ UNCHANGED dreams

\* the event loop runs a dreaming_phase task; the evaluation gives what
\* _evaluate_apprentice computes or what the test's mock returns, 0.90
RunDream(confidence) ==
    /\ dream_tasks > 0
    /\ dream_tasks' = dream_tasks - 1
    /\ LET Done(s) ==
              /\ NurseBecomes(s)
              /\ dreams' =
                   IF conversation_buffer = <<>> \/ is_dreaming THEN dreams
                   ELSE [dreams EXCEPT
                           !.count = @ + 1, !.confidence = confidence,
                           !.succession = s.current_generation # current_generation]
       IN  Done(dreaming_phase(NurseSelf, confidence))
    /\ UNCHANGED conversations

\* await asyncio.sleep(0.1) of a caller that has its answer: the tasks that
\* were ready have run, and the caller reads is_dreaming
LookAfterSleep(c) ==
    /\ conversations[c].pc = "returned"
    /\ dream_tasks = 0
    /\ conversations' = [conversations EXCEPT ![c] =
                            [@ EXCEPT !.pc = "looked", !.saw = is_dreaming]]
    /\ UNCHANGED <<current_generation, current_apprentice_state, generation_history,
                   conversation_buffer, is_dreaming, mature_student_pool,
                   dream_interval_conversations, min_dream_cycles_for_inference,
                   dream_tasks, dreams>>

NurseNext ==
    /\ \/ \E c \in 1..NumCallers : StartConversation(c)
       \/ \E c \in 1..NumCallers : FinishConversation(c)
       \/ \E confidence \in {_evaluate_apprentice(NurseSelf), 90} : RunDream(confidence)
       \/ \E c \in 1..NumCallers : LookAfterSleep(c)
    /\ UNCHANGED <<cacheVars, codecVars, batchVars, storeVars>>
    /\ UNCHANGED <<mapperVars, twinVars, raceVars, restVars>>

SpecNurse == NurseInit /\ [][NurseNext]_vars

(***************************************************************************)
(* SpecRace: threads call get and __setitem__ on the shared cache; a       *)
(* thread may be preempted between any two statements.                     *)
(***************************************************************************)
NumThreads == 2
MaxRaceSize == 2

RaceKeys == {1, 2}

RaceInit ==
    /\ max_size \in 1..MaxRaceSize
    /\ cache = <<>>
    /\ threads = [t \in 1..NumThreads |-> IdleThread]
    /\ lastOp = [op |-> "init", key |-> 0, value |-> 0, hit |-> FALSE]
    /\ ret = None
    /\ raised = FALSE
    /\ lastUse = <<>>
    /\ script = -1
    /\ lastSet = <<>>
    /\ CodecIdle /\ BatchIdle /\ StoreIdle
    /\ MapperIdle /\ TwinIdle /\ NurseIdle /\ RestIdle

\* the thread t calls cache.get(key)
CallGet(t, key) ==
    /\ threads[t].pc \in {"idle", "done"}
    /\ threads' = [threads EXCEPT ![t] =
                      [IdleThread EXCEPT !.op = "get", !.key = key, !.pc = "get_in"]]
    /\ UNCHANGED cache

\* the thread t calls cache[key] = value
CallSet(t, key, value) ==
    /\ threads[t].pc \in {"idle", "done"}
    /\ threads' = [threads EXCEPT ![t] =
                      [IdleThread EXCEPT !.op = "set", !.key = key,
                                         !.value = value, !.pc = "set_in"]]
    /\ UNCHANGED cache

\* the thread t runs its next statement
RunThread(t) ==
    /\ threads[t].pc \notin {"idle", "done"}
    /\ LET Done(r) ==
              /\ threads' = [threads EXCEPT ![t] = r.thread]
              /\ cache' = r.cache
       IN  Done(ThreadStep(threads[t], cache, max_size))

RaceNext ==
    /\ \/ \E t \in 1..NumThreads, key \in RaceKeys : CallGet(t, key)
       \/ \E t \in 1..NumThreads, key \in RaceKeys : CallSet(t, key, 1)
       \/ \E t \in 1..NumThreads : RunThread(t)
    /\ UNCHANGED <<max_size, lastOp, ret, raised, lastUse, script, lastSet>>
    /\ UNCHANGED <<codecVars, batchVars, storeVars>>
    /\ UNCHANGED <<mapperVars, twinVars, nurseVars, restVars>>

SpecRace == RaceInit /\ [][RaceNext]_vars

(***************************************************************************)
(* RunnerEngine._fetch_db_coordinates, src/runner_engine.py                *)
(* A task is [pc, db_coordinates, i, results, hits]: where it stands, its  *)
(* argument, the position of the loop in db_coordinates[:5], its results   *)
(* dict, and, as history, the coordinates it found in the cache.           *)
(***************************************************************************)
\* LRUCache(max_size=20)
hot_cache_max_size == 20

\* the default tolerance 10.0 of fetch_async, in halves
default_tolerance == 20

\* db_coordinates[:5]
FirstFive(db_coordinates) == SubSeq(db_coordinates, 1, Min(Len(db_coordinates), 5))

IdleRun == [pc |-> "idle", db_coordinates |-> <<>>, i |-> 1, results |-> <<>>, hits |-> <<>>]

\* mutant: the store is asked without a look into the cache
LoopHead_AlwaysFetch(run, c) ==
    LET coords == FirstFive(run.db_coordinates)
    IN  IF run.i > Len(coords)
        THEN [run |-> [run EXCEPT !.pc = "done"], cache |-> c, fetch |-> None]
        ELSE [run |-> [run EXCEPT !.pc = "await"], cache |-> c,
              fetch |-> Some(coords[run.i])]

\* one pass of the loop from its head: to the continue of a hit, to the
\* await of db.fetch_async(coord) on a miss, or to the return
LoopHead(run, c) ==
    LET coords == FirstFive(run.db_coordinates)
        Hit(coord, got) ==
            [run |-> [run EXCEPT !.i = @ + 1,
                                 !.results = DictSet(@, coord, got.ret[1]),
                                 !.hits = Append(@, coord)],
             cache |-> got.cache, fetch |-> None]
        Body(coord) ==
            IF LRU_contains(c, coord).ret
            THEN Hit(coord, LRU_getitem(c, coord))
            ELSE [run |-> [run EXCEPT !.pc = "await"], cache |-> c,
                  fetch |-> Some(coord)]
    IN  IF run.i > Len(coords)
        THEN [run |-> [run EXCEPT !.pc = "done"], cache |-> c, fetch |-> None]
        ELSE Body(coords[run.i])

\* the rest of the loop body after db.fetch_async(coord) has answered tile_:
\* a tile is put into the cache and the results, None into neither
AfterFetch(run, c, tile_) ==
    LET coord == FirstFive(run.db_coordinates)[run.i]
    IN  IF tile_ # None
        THEN [run |-> [run EXCEPT !.pc = "loop", !.i = @ + 1,
                                  !.results = DictSet(@, coord, tile_[1])],
              cache |-> LRU_setitem(c, coord, tile_[1], hot_cache_max_size).cache]
        ELSE [run |-> [run EXCEPT !.pc = "loop", !.i = @ + 1], cache |-> c]

(***************************************************************************)
(* SpecRunner: tasks of one RunnerEngine run _fetch_db_coordinates on one   *)
(* event loop; a task gives way at its await only.                         *)
(***************************************************************************)
NumTasks == 2
MaxRuns == 2
MaxCoords == 2

\* (10, 10, 10), (10.5, 10, 10), (50, 50, 50) and (200, 200, 200)
CoordA == <<20, 20, 20>>
CoordA2 == <<21, 20, 20>>
CoordB == <<100, 100, 100>>
CoordFar == <<400, 400, 400>>

RunnerCoords == {CoordA, CoordA2, CoordB, CoordFar}

\* (500 + n, 0, 0)
Filler(n) == <<1000 + 2 * n, 0, 0>>

\* the tiles of the store behind the engine: at (10, 10, 10), (50, 50, 50)
\* and (510, 0, 0)
RunnerDb ==
    << [k |-> StrA, v |-> StoreTile(StrA, <<20, 20, 20>>)],
       [k |-> StrB, v |-> StoreTile(StrB, <<100, 100, 100>>)],
       [k |-> StrC, v |-> StoreTile(StrC, <<1020, 0, 0>>)] >>

\* the cache after (10, 10, 10) and nineteen other coordinates were asked for
FullCache ==
    <<[k |-> CoordA, v |-> RunnerDb[1].v]>>
       \o [n \in 1..(hot_cache_max_size - 1) |-> [k |-> Filler(n), v |-> RunnerDb[3].v]]

RunnerLists ==
    {l \in ListsOf(RunnerCoords, MaxCoords) : l # <<>>}
       \cup {<<CoordA, CoordA, CoordA, CoordA, CoordA, CoordB>>}

RunnerInit ==
    /\ hot_cache \in {<<>>, FullCache}
    /\ runs = [r \in 1..NumTasks |-> IdleRun]
    /\ running = 0
    /\ fetch_log = <<>>
    /\ launched = 0
    /\ CacheIdle /\ CodecIdle /\ BatchIdle /\ StoreIdle
    /\ MapperIdle /\ TwinIdle /\ NurseIdle /\ RaceIdle /\ JudgeIdle

\* asyncio.create_task(self._fetch_db_coordinates(db_coordinates))
CreateTask(r, db_coordinates) ==
    /\ running = 0
    /\ launched < MaxRuns
    /\ runs[r].pc \in {"idle", "done", "cancelled"}
    /\ runs' = [runs EXCEPT ![r] = [IdleRun EXCEPT !.pc = "loop",
                                                   !.db_coordinates = db_coordinates]]
    /\ launched' = launched + 1
    /\ UNCHANGED <<hot_cache, running, fetch_log>>

\* the task r runs one pass of its loop; it keeps the event loop until it
\* awaits or returns
Iterate(r) ==
    /\ running \in {0, r}
    /\ runs[r].pc = "loop"
    /\ LET Done(s) ==
              /\ runs' = [runs EXCEPT ![r] = s.run]
              /\ hot_cache' = s.cache
              /\ fetch_log' = IF s.fetch = None THEN fetch_log
                              ELSE Append(fetch_log, s.fetch[1])
              /\ running' = IF s.run.pc = "loop" THEN r ELSE 0
       IN  Done(LoopHead(runs[r], hot_cache))
    /\ UNCHANGED launched

\* db.fetch_async(coord) answers the task r
Answer(r) ==
    /\ running = 0
    /\ runs[r].pc = "await"
    /\ LET Done(s) ==
              /\ runs' = [runs EXCEPT ![r] = s.run]
              /\ hot_cache' = s.cache
       IN  Done(AfterFetch(runs[r], hot_cache,
                           _search_coordinate(RunnerDb,
                               FirstFive(runs[r].db_coordinates)[runs[r].i],
                               default_tolerance)))
    /\ running' = r
    /\ UNCHANGED <<fetch_log, launched>>

\* asyncio.wait_for(db_task, timeout=0.5) runs out and cancels the task r
Cancel(r) ==
    /\ running = 0
    /\ runs[r].pc = "await"
    /\ runs' = [runs EXCEPT ![r].pc = "cancelled"]
    /\ UNCHANGED <<hot_cache, running, fetch_log, launched>>

RunnerNext ==
    /\ \/ \E r \in 1..NumTasks, l \in RunnerLists : CreateTask(r, l)
       \/ \E r \in 1..NumTasks : Iterate(r)
       \/ \E r \in 1..NumTasks : Answer(r)
       \/ \E r \in 1..NumTasks : Cancel(r)
    /\ UNCHANGED <<cacheVars, codecVars, batchVars, storeVars>>
    /\ UNCHANGED <<mapperVars, twinVars, nurseVars, raceVars, judgeVars>>

SpecRunner == RunnerInit /\ [][RunnerNext]_vars

(***************************************************************************)
(* JudgeCorrectionFlow, src/judge_correction_flow.py                       *)
(* A validation is [severity]: None when the dict of the beta lobe has no  *)
(* key "severity", else Some of its value.  A response of the alpha lobe   *)
(* is [main_response], the number of the call that produced it.            *)
(***************************************************************************)
\* mutant: a moderate severity is approved
_summarize_and_decide_action_ModerateApproves(validation_result) ==
    LET severity == IF validation_result.severity = None THEN "none"
                    ELSE validation_result.severity[1]
    IN  IF severity = "critical" THEN "regenerate" ELSE "approve"

_summarize_and_decide_action(validation_result) ==
    LET severity == IF validation_result.severity = None THEN "none"
                    ELSE validation_result.severity[1]
    IN  IF severity = "critical" THEN "regenerate"
        ELSE IF severity = "moderate" THEN "regenerate"
        ELSE "approve"

\* the test of the while loop: into the body, or to the return after it
WhileHead(count, max) ==
    IF count <= max
    THEN [pc |-> "validating", ret |-> None]
    ELSE [pc |-> "returned",
          ret |-> Some([status |-> "error", response |-> None, validation |-> None])]

\* the body of the while loop after its validate_response has answered:
\* [pc, regeneration_count, ret], ret being the dict returned, if any
LoopBody(validation, response, count, max) ==
    LET action == _summarize_and_decide_action(validation)
    IN  CASE action = "approve" ->
               [pc |-> "returned", regeneration_count |-> count,
                ret |-> Some([status |-> "approved",
                              response |-> Some(response.main_response),
                              validation |-> Some(validation)])]
          [] action = "auto_correct" ->
               [pc |-> "correcting", regeneration_count |-> count, ret |-> None]
          [] action = "regenerate" ->
               IF count < max
               THEN [pc |-> "generating", regeneration_count |-> count + 1,
                     ret |-> None]
               ELSE [pc |-> "returned", regeneration_count |-> count,
                     ret |-> Some([status |-> "unable_to_answer",
                                   response |-> None,
                                   validation |-> Some(validation)])]

\* the branch auto_correct after its second validate_response has answered
Corrected(second_validation, response) ==
    [status |-> "corrected", response |-> Some(response.main_response),
     validation |-> Some(second_validation)]

(***************************************************************************)
(* SpecJudge: calls of process_and_correct, one after the other; the two   *)
(* lobes answer whatever they like.  SpecJudgeFair adds that a lobe that   *)
(* was asked does answer.                                                  *)
(***************************************************************************)
MaxRegenerations == 3

Severities == {None, Some("none"), Some("minor"), Some("moderate"), Some("critical")}

JudgeInit ==
    /\ jpc = "idle"
    /\ max_regenerations = 1
    /\ regeneration_count = 0
    /\ alpha_response = None
    /\ alpha_calls = 0
    /\ validations = <<>>
    /\ outcome = None
    /\ CacheIdle /\ CodecIdle /\ BatchIdle /\ StoreIdle
    /\ MapperIdle /\ TwinIdle /\ NurseIdle /\ RaceIdle /\ RunnerIdle

\* process_and_correct(question, db_context, max_regenerations=max) up to
\* its first await; max_regenerations is a count, 0 or more
ProcessAndCorrect(max) ==
    /\ jpc \in {"idle", "returned"}
    /\ jpc' = "generating"
    /\ max_regenerations' = max
    /\ regeneration_count' = 0
    /\ alpha_response' = None
    /\ alpha_calls' = 1
    /\ validations' = <<>>
    /\ outcome' = None

\* alpha_lobe.generate_response answers; the flow goes on to the next await
AlphaAnswers ==
    /\ jpc = "generating"
    /\ alpha_response' = Some([main_response |-> alpha_calls])
    /\ LET Done(w) == jpc' = w.pc /\ outcome' = w.ret
       IN  Done(WhileHead(regeneration_count, max_regenerations))
    /\ UNCHANGED <<max_regenerations, regeneration_count, alpha_calls, validations>>

\* beta_lobe.validate_response answers with this severity; the flow goes on
\* to the next await or to its return
Validate(severity) ==
    /\ jpc \in {"validating", "correcting"}
    /\ validations' = Append(validations,
                             [response |-> alpha_response[1].main_response,
                              severity |-> severity])
    /\ LET Done(b) ==
              /\ jpc' = b.pc
              /\ regeneration_count' = b.regeneration_count
              /\ outcome' = b.ret
              /\ alpha_calls' = IF b.pc = "generating" THEN alpha_calls + 1
                                ELSE alpha_calls
       IN  IF jpc = "correcting"
           THEN Done([pc |-> "returned", regeneration_count |-> regeneration_count,
                      ret |-> Some(Corrected([severity |-> severity],
                                             alpha_response[1]))])
           ELSE Done(LoopBody([severity |-> severity], alpha_response[1],
                              regeneration_count, max_regenerations))
    /\ UNCHANGED <<max_regenerations, alpha_response>>

BetaAnswers == \E severity \in Severities : Validate(severity)

JudgeNext ==
    /\ \/ \E max \in 0..MaxRegenerations : ProcessAndCorrect(max)
       \/ AlphaAnswers
       \/ BetaAnswers
    /\ UNCHANGED <<cacheVars, codecVars, batchVars, storeVars>>
    /\ UNCHANGED <<mapperVars, twinVars, nurseVars, raceVars, runnerVars>>

SpecJudge == JudgeInit /\ [][JudgeNext]_vars

\* the steps of JudgeNext change none but judgeVars
SpecJudgeFair == SpecJudge /\ WF_judgeVars(AlphaAnswers) /\ WF_judgeVars(BetaAnswers)

(***************************************************************************)
(* Claims about encode_tile and decode_tile, checked under SpecCodec       *)
(***************************************************************************)
\* the fields the round trip is claimed to reproduce
SameFields(t, d) ==
    /\ d.metadata.knowledge_id = t.metadata.knowledge_id
    /\ d.metadata.topic = t.metadata.topic
    /\ d.coordinates.medical_space = t.coordinates.medical_space
    /\ d.coordinates.meta_space = t.coordinates.meta_space
    /\ d.content.thinking_process = t.content.thinking_process
    /\ d.content.final_response = t.content.final_response
    /\ d.verification.status = t.verification.status
    /\ d.verification.initial_certainty = t.verification.initial_certainty

NulFree(str) == \A i \in 1..Len(str) : str[i] # 0

\* h / 2 has at most 24 significant bits: some binary32 float equals it
IsBinary32(h) == h = 0 \/ Msb(Abs(h)) <= 23 \/ Abs(h) % (2 ^ (Msb(Abs(h)) - 23)) = 0

AllBinary32(t) ==
    \A i \in 1..3 : /\ IsBinary32(t.coordinates.medical_space[i])
                    /\ IsBinary32(t.coordinates.meta_space[i])

\* C1 as stated: whenever a tile has been encoded and decoded, the decoded
\* tile has the id, topic, coordinates, texts, status and certainty of the
\* tile that was encoded, for arbitrary strings and finite coordinates.
C1_RoundTripAnyTile ==
    pc = "decoded" => (decoded.ok /\ SameFields(tile, decoded.val))

\* C1 amended: the same, for the tiles whose id and topic contain no NUL and
\* whose six coordinates are binary32 values (encode_tile having accepted
\* the tile); the status is reproduced whatever status the tile had before.
C1_RoundTrip ==
    (/\ pc = "decoded"
     /\ NulFree(tile.metadata.knowledge_id) /\ NulFree(tile.metadata.topic)
     /\ AllBinary32(tile))
    => (decoded.ok /\ SameFields(tile, decoded.val))

C1_Witness ==
    /\ pc = "decoded" /\ decoded.ok
    /\ tile.metadata.knowledge_id = StrAccent /\ tile.metadata.topic = StrKana
    /\ tile.content.thinking_process = StrNulInside
    /\ tile.coordinates.medical_space = <<-3, 56, 70>>
    /\ prevStatus = "verified" /\ tile.verification.status = "pending_review"
    /\ decoded.val.verification.status = "pending_review"

(***************************************************************************)
(* Claims about encode_batch and decode_batch, checked under SpecBatch     *)
(***************************************************************************)
IdOf(t) == t.metadata.knowledge_id

\* the place of the last tile of ts that has the id
LastWith(ts, id) ==
    CHOOSE i \in 1..Len(ts) :
        IdOf(ts[i]) = id /\ \A j \in (i + 1)..Len(ts) : IdOf(ts[j]) # id

\* the map holds for every id it has the texts of the last input tile with
\* that id
LaterTileWins(ts, map) ==
    \A id \in DictKeys(map) \cap {IdOf(ts[i]) : i \in 1..Len(ts)} :
        DictGet(map, id).content = ts[LastWith(ts, id)].content

\* C2 as stated: decoding a file that encode_batch wrote yields a map whose
\* keys are the ids of all the input tiles, and for an id that several input
\* tiles share the map holds the content of the last of them.
C2_KeysAreAllIds ==
    (bpc = "decoded" /\ damage = "none")
    => /\ out.ok
       /\ DictKeys(out.val) = {IdOf(tiles[i]) : i \in 1..Len(tiles)}
       /\ LaterTileWins(tiles, out.val)

\* C2 amended: the keys are the ids of the input tiles whose id is not
\* empty (encode_batch leaves a tile with an empty id out of the file), and
\* for an id that several input tiles share the map holds the content of
\* the last of them.
C2_BatchRoundTrip ==
    (bpc = "decoded" /\ damage = "none")
    => /\ out.ok
       /\ DictKeys(out.val) = {IdOf(tiles[i]) : i \in 1..Len(tiles)} \ {<<>>}
       /\ LaterTileWins(tiles, out.val)

C2_Witness ==
    /\ bpc = "decoded" /\ damage = "none" /\ out.ok
    /\ Len(tiles) = 2
    /\ IdOf(tiles[1]) = StrQuote /\ IdOf(tiles[2]) = StrQuote
    /\ tiles[1].content.final_response = StrAccent
    /\ tiles[2].content.final_response = StrA
    /\ Len(out.val) = 1
    /\ DictGet(out.val, StrQuote).content.final_response = StrA

\* the file as encode_batch wrote it, before any damage
Pristine == encode_batch(tiles, domain_code, now).val

\* the index records of the file f whose blob decodes
Decodable(f) ==
    {i \in 1..Len(IndexOf(f).val) : decode_tile(BlobOf(f, IndexOf(f).val[i])).ok}

\* the ids of the index records whose blob is not what encode_batch wrote
DamagedIds(f) ==
    {IndexOf(f).val[i].id : i \in {j \in 1..Len(IndexOf(f).val) :
        BlobOf(f, IndexOf(f).val[j]) # BlobOf(Pristine, IndexOf(f).val[j])}}

\* C5: when the header and the index of the file are sound, decode_batch
\* returns a map; its keys are the ids of the index records whose blob
\* decodes; each id maps to what decode_tile makes of the last such blob;
\* and an id none of whose blobs was damaged maps to the tile it maps to
\* when the undamaged file is decoded.
C5_CorruptBlobsSkipped ==
    (bpc = "decoded" /\ IndexOf(file).ok)
    => /\ out.ok
       /\ DictKeys(out.val) = {IndexOf(file).val[i].id : i \in Decodable(file)}
       /\ \A i \in Decodable(file) :
            (\A j \in Decodable(file) :
                IndexOf(file).val[j].id = IndexOf(file).val[i].id => j <= i)
            => DictGet(out.val, IndexOf(file).val[i].id)
                 = decode_tile(BlobOf(file, IndexOf(file).val[i])).val
       /\ \A id \in DictKeys(decode_batch(Pristine).val) \ DamagedIds(file) :
            /\ HasKey(out.val, id)
            /\ DictGet(out.val, id) = DictGet(decode_batch(Pristine).val, id)

C5_Witness ==
    /\ bpc = "decoded" /\ damage = "blob_1" /\ out.ok
    /\ Len(IndexOf(file).val) = 2
    /\ IndexOf(file).val[1].id = StrA /\ IndexOf(file).val[2].id = StrNulInside
    /\ DictKeys(out.val) = {StrNulInside}

\* the bytes [index_offset, data_offset) of f are UTF-8 text that parses
IndexParses(f) ==
    /\ Utf8Decode(Slice(f, HeaderOf(f).index_offset, HeaderOf(f).data_offset)).ok
    /\ JsonLoads(Utf8Decode(Slice(f, HeaderOf(f).index_offset,
                                  HeaderOf(f).data_offset)).val).ok

\* C6: decode_batch raises an error, and so returns no map, when the file
\* has fewer than 64 bytes, when its first four bytes are not "ILMA", and
\* when its index section does not parse; a file cut to 63 bytes, a file
\* with a damaged magic number and a file with a damaged or cut index are
\* such files.
C6_BadFileFails ==
    /\ (bpc = "decoded"
        /\ (\/ Len(file) < header_size
            \/ SubSeq(file, 1, 4) # Magic
            \/ ~IndexParses(file)))
       => (~out.ok /\ out.val \in {"ValueError", "UnicodeDecodeError",
                                   "JSONDecodeError"})
    /\ (bpc = "decoded"
        /\ damage \in {"short", "magic", "index_byte", "index_cut"})
       => ~out.ok

C6_Witness ==
    /\ bpc = "decoded" /\ damage = "index_cut"
    /\ Len(tiles) = 2 /\ IdOf(tiles[1]) = StrA
    /\ Len(file) >= header_size /\ SubSeq(file, 1, 4) = Magic
    /\ out = Raise("JSONDecodeError")

\* the tiles of ts that encode_batch encodes: those with an id
Encoded(ts) == SelectSeq(ts, LAMBDA t : IdOf(t) # <<>>)

\* C15: the file encode_batch returns has index_offset = 64 and data_offset =
\* 64 + the length of the index bytes; its index lists the encoded tiles in
\* input order; the first record has offset 0 and every next record the
\* offset of the one before plus its length, each record pointing at the
\* bytes encode_tile gave for its tile; the last blob ends where the file
\* ends.
C15_FileLayout ==
    (bpc \in {"file", "decoded"} /\ damage = "none") =>
        LET Laid(h, idx, kept) ==
                /\ h.index_offset = header_size
                /\ h.data_offset = header_size + Len(Utf8Encode(JsonDumps(idx)))
                /\ Len(idx) = Len(kept)
                /\ \A i \in 1..Len(idx) :
                      /\ idx[i].id = IdOf(kept[i])
                      /\ idx[i].offset =
                            IF i = 1 THEN 0 ELSE idx[i - 1].offset + idx[i - 1].length
                      /\ BlobOf(file, idx[i]) = encode_tile(kept[i], now).val
                      /\ Len(BlobOf(file, idx[i])) = idx[i].length
                /\ Len(file) =
                      IF idx = <<>> THEN h.data_offset
                      ELSE h.data_offset + idx[Len(idx)].offset + idx[Len(idx)].length
        IN  Laid(HeaderOf(file), IndexOf(file).val, Encoded(tiles))

C15_Witness ==
    /\ bpc = "file" /\ damage = "none"
    /\ Len(tiles) = 2
    /\ Len(IndexOf(file).val) = 2
    /\ IndexOf(file).val[2].offset > 0
    /\ IdOf(tiles[1]) = IdOf(tiles[2])

\* C16: encode_batch writes 32 zero bytes as checksum whatever its input,
\* and decode_batch returns for a file in which only checksum bytes were
\* changed the same dict as for the file as written.
C16_ChecksumIgnored ==
    /\ (bpc \in {"file", "decoded"} /\ damage = "none")
          => SubSeq(file, 11, 42) = Zeros(32)
    /\ (bpc = "decoded" /\ damage = "checksum") => out = decode_batch(Pristine)

C16_Witness ==
    /\ bpc = "decoded" /\ damage = "checksum"
    /\ LET Differ(written) ==
                /\ file # written
                /\ Len(file) = Len(written)
                /\ \A n \in (1..Len(file)) \ (11..42) : file[n] = written[n]
       IN  Differ(Pristine)
    /\ out.ok /\ Len(out.val) = 2

(***************************************************************************)
(* Claims about the store, checked under SpecStore                         *)
(***************************************************************************)
\* the tile t lies within the tolerance of the coordinate q (all in halves):
\* the Euclidean distance is at most the tolerance exactly when the sum of
\* the squared differences is at most the squared tolerance
Within(t, q, tol) ==
    LET x == t.coordinates.medical_space
    IN  ((q[1] - x[1]) ^ 2) + ((q[2] - x[2]) ^ 2) + ((q[3] - x[3]) ^ 2) <= tol ^ 2

Fetched == call.op = "fetch" /\ is_loaded

CoordsLoaded == [i \in 1..Len(loaded_tiles) |-> loaded_tiles[i].v.coordinates.medical_space]

\* C7: a fetch on a loaded store returns a tile exactly when some loaded tile
\* is within the tolerance, the boundary included, and the tile returned is a
\* loaded tile within the tolerance.  A store that holds one tile at
\* (10,10,10) answers a fetch with tolerance 5 at (12,12,12) with that tile
\* and at (20,20,20) with None; a store loaded from the file of tiles a, b, c
\* at (0,0,0), (50,50,50), (100,100,100) answers a fetch with tolerance 5 at
\* (51,49,50) with tile b.
C7_FetchWithinTolerance ==
    /\ Fetched =>
         /\ result # None <=>
              \E i \in 1..Len(loaded_tiles) :
                  Within(loaded_tiles[i].v, call.coordinate, call.tolerance)
         /\ result # None =>
              /\ \E i \in 1..Len(loaded_tiles) : loaded_tiles[i].v = result[1]
              /\ Within(result[1], call.coordinate, call.tolerance)
    /\ (Fetched /\ CoordsLoaded = << <<20, 20, 20>> >> /\ call.tolerance = 10) =>
         /\ call.coordinate = <<24, 24, 24>> => result = Some(loaded_tiles[1].v)
         /\ call.coordinate = <<40, 40, 40>> => result = None
    /\ (/\ Fetched
        /\ loaded_file = Some(FileOf(<< StoreTile(StrA, <<0, 0, 0>>),
                                        StoreTile(StrB, <<100, 100, 100>>),
                                        StoreTile(StrC, <<200, 200, 200>>) >>))
        /\ call.coordinate = <<102, 98, 100>> /\ call.tolerance = 10) =>
         /\ Len(loaded_tiles) = 3
         /\ result # None
         /\ result[1].metadata.knowledge_id = StrB
         /\ result[1].coordinates.medical_space = <<100, 100, 100>>

\* a fetch at (13,14,10) with tolerance 5 returns the tile at (10,10,10),
\* which is at distance 5
C7_Witness ==
    /\ Fetched
    /\ call.coordinate = <<26, 28, 20>> /\ call.tolerance = 10
    /\ result # None
    /\ result[1].coordinates.medical_space = <<20, 20, 20>>

\* the ids of the index records of the file f
IndexIds(f) == [i \in 1..Len(IndexOf(f).val) |-> IndexOf(f).val[i].id]

\* the place where the id appears in ids for the first / the last time
FirstPlace(ids, id) == CHOOSE i \in 1..Len(ids) : ids[i] = id /\ \A j \in 1..(i - 1) : ids[j] # id

LastPlace(ids, id) == CHOOSE i \in 1..Len(ids) : ids[i] = id /\ \A j \in (i + 1)..Len(ids) : ids[j] # id

\* the ids of the loaded tiles within the tolerance of the query
Hits == {id \in DictKeys(loaded_tiles) :
            Within(DictGet(loaded_tiles, id), call.coordinate, call.tolerance)}

C9_IndexOfFreshStore ==
    (is_loaded /\ loads = 1) =>
        /\ DictKeys(index) = {RoundedCoord(CoordsLoaded[i]) : i \in 1..Len(loaded_tiles)}
        /\ \A i \in 1..Len(loaded_tiles) :
              (\A j \in (i + 1)..Len(loaded_tiles) :
                  RoundedCoord(CoordsLoaded[j]) # RoundedCoord(CoordsLoaded[i]))
              => DictGet(index, RoundedCoord(CoordsLoaded[i])) = loaded_tiles[i].k

\* a at (0,0,0) and c at (0.5,0,0) both round to (0,0,0), which maps to c
C9_Witness ==
    /\ is_loaded /\ loads = 1 /\ call.op = "load"
    /\ CoordsLoaded = << <<0, 0, 0>>, <<1, 0, 0>> >>
    /\ index = << [k |-> <<0, 0, 0>>, v |-> StrC] >>

\* the file at db_file_path cannot be loaded: it is missing or unreadable,
\* shorter than a header, without the magic number, or its index does not
\* parse
Unloadable(f) == f = None \/ ~IndexOf(f[1]).ok

\* C19 as stated: a load of such a file raises an error.
C19_FailedLoadRaises ==
    (call.op = "load" /\ Unloadable(db_file)) => escaped # None

\* C19 amended: a load of such a file returns False, raises nothing, and
\* leaves loaded_tiles, index and is_loaded as they were; so does the load
\* a fetch on a store that is not loaded starts, the fetch returning None.
C19_FailedLoadKeepsState ==
    [][ /\ (call'.op = "load" /\ Unloadable(db_file))
            => /\ result' = Some(FALSE) /\ escaped' = None
               /\ UNCHANGED <<loaded_tiles, index, is_loaded>>
        /\ (call'.op = "fetch" /\ ~is_loaded /\ Unloadable(db_file))
            => /\ result' = None /\ escaped' = None
               /\ UNCHANGED <<loaded_tiles, index, is_loaded>> ]_vars

\* a store that holds two tiles has failed to load a file whose index was
\* overwritten
C19_Witness ==
    /\ call.op = "load" /\ result = Some(FALSE)
    /\ is_loaded /\ Len(loaded_tiles) = 2 /\ Len(index) = 2
    /\ db_file # None /\ SubSeq(db_file[1], 1, 4) = Magic
    /\ ~IndexOf(db_file[1]).ok

\* C28: after any sequence of loads on one store, every id held in the index
\* is a key of loaded_tiles and its index key is the rounded domain-space
\* coordinate of that tile, so that no index entry is left over from a file
\* loaded before.
C28_IndexOfCurrentTiles ==
    \A i \in 1..Len(index) :
        /\ HasKey(loaded_tiles, index[i].v)
        /\ index[i].k =
              RoundedCoord(DictGet(loaded_tiles, index[i].v).coordinates.medical_space)

(***************************************************************************)
(* Claims about concurrent readers of the store, checked under SpecReaders *)
(***************************************************************************)
\* what the call of the reader rd returns when it runs alone on the store
Alone(rd) ==
    CASE rd.op = "fetch" ->
           Ok(fetch_async(Self, db_file, rd.coordinate, rd.tolerance).ret)
      [] rd.op = "keyword" -> Ok(search_by_keyword(loaded_tiles, rd.keyword))
      [] rd.op = "stats" -> get_stats(Self, db_file)

\* C20: once the store is loaded, no step of a fetch, a keyword search or a
\* stats call, however the calls of several readers interleave, changes
\* loaded_tiles, index or is_loaded, and every call that returns, returns
\* what the same call returns when it runs alone.
C20_ReadersArePure ==
    [][ /\ UNCHANGED <<loaded_tiles, index, is_loaded>>
        /\ \A r \in 1..NumReaders :
              readers'[r].state = "done" => readers'[r].ret = Alone(readers'[r]) ]_vars

\* the letters a and b are the same when case is ignored
SameLetter(a, b) ==
    \/ a = b
    \/ (a \in 65..90 /\ b = a + 32) \/ (b \in 65..90 /\ a = b + 32)
    \/ (a \in (192..222) \ {215} /\ b = a + 32)
    \/ (b \in (192..222) \ {215} /\ a = b + 32)

\* text holds keyword as a substring when case is ignored
HoldsKeyword(text, keyword) ==
    \E i \in 0..Len(text) :
        /\ i + Len(keyword) <= Len(text)
        /\ \A j \in 1..Len(keyword) : SameLetter(text[i + j], keyword[j])

\* the returned list is the tiles at the places hits of the store, in the
\* order of the store
InStoreOrder(returned, hits) ==
    /\ Len(returned) = Cardinality(hits)
    /\ \A k \in 1..Len(returned) :
          returned[k] =
             loaded_tiles[CHOOSE i \in hits :
                             Cardinality({j \in hits : j <= i}) = k].v

\* C21: a keyword search returns exactly the loaded tiles whose
\* final_response holds the keyword as a substring when case is ignored, in
\* the iteration order of the store; the topic and the thinking_process of
\* a tile do not count.
C21_KeywordSearch ==
    \A r \in 1..NumReaders :
        (readers[r].state = "done" /\ readers[r].op = "keyword")
          => /\ readers[r].ret.ok
             /\ InStoreOrder(readers[r].ret.val,
                   {i \in 1..Len(loaded_tiles) :
                      HoldsKeyword(loaded_tiles[i].v.content.final_response,
                                   readers[r].keyword)})

\* a search for "AB" has returned the tile that answers "cAbc" and not the
\* tile that has "AB" as its thinking_process and "ab" as its topic
C21_Witness ==
    \E r \in 1..NumReaders :
        /\ readers[r].state = "done" /\ readers[r].op = "keyword"
        /\ Len(readers[r].ret.val) = 1
        /\ readers[r].ret.val[1].content.final_response = <<99, 65, 98, 99>>
        /\ \E i \in 1..Len(loaded_tiles) :
              /\ HoldsKeyword(loaded_tiles[i].v.content.thinking_process, readers[r].keyword)
              /\ HoldsKeyword(loaded_tiles[i].v.metadata.topic, readers[r].keyword)
              /\ loaded_tiles[i].v # readers[r].ret.val[1]

\* a keyword search has returned two tiles while another reader stands
\* inside the loop of its fetch, one tile taken
C20_Witness ==
    \E r, q \in 1..NumReaders :
        /\ readers[r].state = "done" /\ readers[r].op = "keyword"
        /\ Len(readers[r].ret.val) = 2
        /\ readers[q].state = "running" /\ readers[q].op = "fetch"
        /\ readers[q].pos = 1

(***************************************************************************)
(* Claims about the engine and the mapper, checked under SpecMapper        *)
(***************************************************************************)
\* the places of keyword_map whose keyword is assigned to the axis and
\* occurs in the text
PlacesFound(axis, text) ==
    {i \in 1..Len(keyword_map) :
        keyword_map[i].v.axis = axis /\ IsIn(keyword_map[i].k, text)}

\* the coordinate of the first such keyword, 50 when there is none
FirstFound(axis, text) ==
    IF PlacesFound(axis, text) = {} THEN 100
    ELSE keyword_map[CHOOSE i \in PlacesFound(axis, text) :
                        \A j \in PlacesFound(axis, text) : i <= j].v.coord

C23_OnePointPerStep ==
    /\ mapped # None
         => /\ Len(mapped[1]) = Len(reasoning_steps)
            /\ \A i \in 1..Len(reasoning_steps) :
                  /\ mapped[1][i].step_sequence = reasoning_steps[i].sequence
                  /\ mapped[1][i].reasoning_text = reasoning_steps[i].text
                  /\ \A a \in 1..3 :
                       LET own == PlacesFound(axis_map[a], reasoning_steps[i].text)
                           at == mapped[1][i].coordinate.medical_space[a]
                       IN  IF own # {}
                           THEN \E p \in own : at = keyword_map[p].v.coord
                           ELSE at = FirstFound(axis_map[a], JoinTexts(reasoning_steps))
    /\ (made # None /\ reasoning_steps # <<>>)
         => /\ made[1].ok
            /\ made[1].val.coordinates.medical_space
                  = mapped[1][1].coordinate.medical_space

\* the steps "b" and "c" were mapped with the first table and the tile was
\* made: "b c" is found in the joined text only, so the first step has its
\* own y and the z of "c", the first keyword of z in the joined text
C23_Witness ==
    /\ made # None /\ made[1].ok
    /\ Len(reasoning_steps) = 2
    /\ reasoning_steps[1].text = <<98>> /\ reasoning_steps[2].text = <<99>>
    /\ PlacesFound("z", JoinTexts(reasoning_steps)) = {4, 5}
    /\ mapped[1][1].coordinate.medical_space = <<100, 60, 20>>
    /\ made[1].val.coordinates.medical_space = <<100, 60, 20>>

(***************************************************************************)
(* Claims about SymbioticTwinEngineSystem, checked under SpecTwin          *)
(***************************************************************************)
\* C24: the roles are exchanged at the turns whose count is a multiple of
\* l0_reset_threshold and at no other step; after n turns the active
\* memory is EngineA when n \div threshold is even and EngineB when it is
\* odd; the active and the passive engine, and the active and the passive
\* memory, are the two different ones; right after an exchange both
\* buffers are empty.
C24_SwapAtMultiples ==
    /\ [](/\ active_memory =
               (IF (turn_count \div l0_reset_threshold) % 2 = 0
                THEN "EngineA" ELSE "EngineB")
          /\ active_engine = active_memory
          /\ passive_engine = passive_memory
          /\ {active_engine, passive_engine} = {"EngineA", "EngineB"})
    /\ [][ /\ (active_memory' # active_memory)
               <=> (turn_count' = turn_count + 1
                    /\ turn_count' % l0_reset_threshold = 0)
           /\ (active_memory' # active_memory)
               => (sap'["EngineA"] = <<>> /\ sap'["EngineB"] = <<>>) ]_vars

\* with the threshold 3 four turns are done, one exchange has happened at
\* the third, and EngineB is active with the records of the fourth turn
C24_Witness ==
    /\ l0_reset_threshold = 3 /\ turn_count = 4 /\ swaps = 1
    /\ active_memory = "EngineB"
    /\ Len(sap["EngineB"]) = 2 /\ Len(sap["EngineA"]) = 1

C27_GetNeverRaises ==
    \A t \in DOMAIN threads :
        (threads[t].op = "get" /\ threads[t].pc = "done")
           => /\ ~threads[t].raised
              /\ threads[t].ret \in {None} \cup {Some(v) : v \in CacheValues}

(***************************************************************************)
(* Claims about LRUCache, checked under SpecCache                          *)
(***************************************************************************)
\* the key of the cache c that the history holds least recently used
Oldest(c, f) == CHOOSE e \in DictKeys(c) : \A k \in DictKeys(c) : f[e] <= f[k]

\* C3: a set of a new key into a full cache evicts exactly one key, the one
\* whose most recent set or successful get is the oldest among the keys
\* present; contains is no use; replaying the usage example with capacity 3
\* (set 1, 2, 3, get 1, contains 2, set 4) evicts key 2 and keeps 1 and 3.
C3_LruEviction ==
    /\ [][ (lastOp'.op = "set" /\ ~HasKey(cache, lastOp'.key)
             /\ Len(cache) = max_size)
           => /\ DictKeys(cache') =
                    (DictKeys(cache) \ {Oldest(cache, lastUse)}) \cup {lastOp'.key}
              /\ Len(cache') = Len(cache) ]_vars
    /\ [](script = Len(Example) => DictKeys(cache) = {1, 3, 4})

C3_Witness ==
    /\ script = Len(Example)
    /\ lastOp.op = "set" /\ ~lastOp.hit
    /\ ~HasKey(cache, 2)

\* C4: the cache never holds more than max_size entries, and a set on a key
\* that is present changes its value and makes it the most recent entry
\* without evicting any key.
C4_Bounded ==
    /\ [](Len(cache) <= max_size)
    /\ [][ (lastOp'.op = "set" /\ HasKey(cache, lastOp'.key))
           => /\ DictKeys(cache') = DictKeys(cache)
              /\ Len(cache') = Len(cache)
              /\ cache'[Len(cache')] = [k |-> lastOp'.key, v |-> lastOp'.value]
              /\ \A k \in DictKeys(cache) \ {lastOp'.key} :
                    DictGet(cache', k) = DictGet(cache, k) ]_vars

C4_Witness ==
    /\ lastOp.op = "set" /\ lastOp.hit
    /\ Len(cache) = max_size /\ max_size >= 2
    /\ cache[Len(cache)] = [k |-> lastOp.key, v |-> lastOp.value]

\* C10: contains(key), and get(key) for a key that is not cached, leave the
\* entries, their values and their order as they were; get on a missing key
\* returns None and does not raise.
C10_ReadsLeaveCache ==
    [][ /\ lastOp'.op = "contains" => cache' = cache
        /\ (lastOp'.op = "get" /\ ~HasKey(cache, lastOp'.key))
             => (cache' = cache /\ ret' = None /\ ~raised') ]_vars

C10_Witness ==
    /\ Len(cache) >= 2
    /\ lastOp.op = "contains" /\ lastOp.hit
    /\ cache[1].k = lastOp.key

\* C11: get(k) returns the value of the most recent set of k if k has not
\* been evicted since that set, and None otherwise; a hit makes k the last
\* (most recently used) entry and leaves the other entries, their values
\* and their relative order as they were.
C11_GetReturnsLastSet ==
    /\ [](lastOp.op = "get" => (ret = lastSet[lastOp.key] /\ ~raised))
    /\ [][ (lastOp'.op = "get" /\ HasKey(cache, lastOp'.key))
           => /\ cache'[Len(cache')].k = lastOp'.key
              /\ Remove(cache', Len(cache')) =
                    Remove(cache, DictPos(cache, lastOp'.key)) ]_vars

C11_Witness ==
    /\ lastOp.op = "get" /\ lastOp.hit
    /\ Len(cache) = 3
    /\ ret = Some(2)
    /\ \E k \in CacheKeys : lastSet[k] = None /\ lastUse[k] = 0 /\ k # lastOp.key
    /\ script = -1

(***************************************************************************)
(* Claims about decode_tile on damaged bytes, checked under SpecTamper     *)
(***************************************************************************)
\* C12: decode_tile raises and returns no tile whenever the decompressed
\* buffer was cut short (it ends before the bytes a length prefix
\* announces), a text holds invalid UTF-8, or the compressed stream is
\* broken.
C12_DamagedTileFails ==
    (pc = "decoded" /\ harm # NoHarm) => ~decoded.ok

(***************************************************************************)
(* Further claims about encode_tile and decode_tile, under SpecCodec       *)
(***************************************************************************)
IsFinite(h) == h \notin {NaN, Inf, -Inf}

AllFinite(c) ==
    \A i \in 1..3 : IsFinite(c.medical_space[i]) /\ IsFinite(c.meta_space[i])

\* C13: encode_tile raises and returns no bytes when one of the six
\* coordinates of the tile is nan or infinite, and no tile decoded from
\* what encode_tile returned has a coordinate that is nan or infinite.
C13_NonFiniteRejected ==
    /\ (pc \in {"encoded", "decoded", "failed"} /\ ~AllFinite(tile.coordinates))
          => (pc = "failed" /\ ~encoded.ok)
    /\ (pc = "decoded" /\ decoded.ok) => AllFinite(decoded.val.coordinates)

Clamp(n, lo, hi) == IF n < lo THEN lo ELSE IF n > hi THEN hi ELSE n

\* C14: encode_tile succeeds for every integer initial_certainty and stores
\* it clamped to 0..100, so that the initial_certainty of a decoded tile is
\* the clamped value and lies in 0..100.
C14_CertaintyClamped ==
    /\ pc \in {"encoded", "decoded", "failed"} => (pc # "failed" /\ encoded.ok)
    /\ (pc = "decoded" /\ decoded.ok)
          => decoded.val.verification.initial_certainty =
                Clamp(tile.verification.initial_certainty, 0, 100)

\* C17: two calls of encode_tile on the same tile return the same bytes,
\* whichever keys the metadata of the tile has and whenever the calls are
\* made.
C17_Deterministic ==
    pc = "twice" => again = encoded

\* the four sections the pipeline test compares, the key created_at holding
\* its str
Compared(t) == <<t.metadata, t.content, t.coordinates, t.verification>>

\* C18: for every tile t built by create_knowledge_tile,
\* decode_tile(encode_tile(t)) equals t on the whole of its metadata,
\* content, coordinates and verification.
C18_LosslessSections ==
    (pc = "decoded" /\ tile \in GeneratedTiles)
        => /\ decoded.ok
           /\ Compared(decoded.val) =
                 Compared([tile EXCEPT !.metadata.created_at = @[1]])

(***************************************************************************)
(* Claims about RunnerEngine._fetch_db_coordinates, checked under          *)
(* SpecRunner                                                              *)
(***************************************************************************)
\* a coordinate, in halves, whose three components are whole numbers
IsRounded(coord) == \A n \in 1..3 : coord[n] % 2 = 0

Entries(d) == {d[j] : j \in 1..Len(d)}

Elements(l) == {l[j] : j \in 1..Len(l)}

\* C29 as stated: the cache keys are rounded coordinates, and the store is
\* asked only when the cache holds no entry for the rounded coordinate of
\* the query.
C29_RoundedKeys ==
    [][ /\ \A j \in 1..Len(hot_cache') : IsRounded(hot_cache'[j].k)
        /\ \A r \in 1..NumTasks :
              (runs[r].pc = "loop" /\ runs'[r].pc = "await")
                 => ~\E j \in 1..Len(hot_cache) :
                        RoundedCoord(hot_cache[j].k) =
                           RoundedCoord(FirstFive(runs[r].db_coordinates)[runs[r].i])
      ]_vars

\* C29 amended: the cache key is the query coordinate as it was passed, and
\* only the first five coordinates of a call are looked at.  A coordinate
\* that is a key of the cache is answered from the cache without a fetch;
\* otherwise the store is asked, and that is the only way the store is
\* asked; a tile it answers is stored under the coordinate and put into the
\* results, an absent answer changes neither the cache nor the results.
C29_CoordinateKeys ==
    [][ /\ \A r \in 1..NumTasks :
              LET run == runs[r]
                  after == runs'[r]
                  coords == FirstFive(run.db_coordinates)
                  Answered(coord, tile_) ==
                      /\ fetch_log' = fetch_log
                      /\ IF tile_ = None
                         THEN hot_cache' = hot_cache /\ after.results = run.results
                         ELSE /\ HasKey(hot_cache', coord)
                              /\ DictGet(hot_cache', coord) = tile_[1]
                              /\ HasKey(after.results, coord)
                              /\ DictGet(after.results, coord) = tile_[1]
              IN  /\ (run.pc = "loop" /\ after # run /\ run.i <= Len(coords)) =>
                        IF HasKey(hot_cache, coords[run.i])
                        THEN /\ fetch_log' = fetch_log
                             /\ after.pc = "loop"
                             /\ HasKey(after.results, coords[run.i])
                             /\ DictGet(after.results, coords[run.i]) =
                                   DictGet(hot_cache, coords[run.i])
                             /\ Entries(hot_cache') = Entries(hot_cache)
                        ELSE /\ fetch_log' = Append(fetch_log, coords[run.i])
                             /\ after.pc = "await"
                             /\ hot_cache' = hot_cache
                  /\ (run.pc = "await" /\ after.pc = "loop") =>
                        Answered(coords[run.i],
                                 _search_coordinate(RunnerDb, coords[run.i],
                                                    default_tolerance))
                  /\ {e.k : e \in Entries(after.results)} \subseteq Elements(coords)
        /\ fetch_log' # fetch_log
              => \E r \in 1..NumTasks : runs[r].pc = "loop" /\ runs'[r].pc = "await"
      ]_vars

\* the store was asked for (10, 10, 10) once and a later query found it in
\* the cache; (10.5, 10, 10) was fetched and stored under its own key; the
\* store had nothing for (200, 200, 200), which is not in the cache
C29_Witness ==
    /\ Len(SelectSeq(fetch_log, LAMBDA c : c = CoordA)) = 1
    /\ \E r \in 1..NumTasks : CoordA \in Elements(runs[r].hits)
    /\ CoordA2 \in Elements(fetch_log)
    /\ HasKey(hot_cache, CoordA) /\ HasKey(hot_cache, CoordA2)
    /\ CoordFar \in Elements(fetch_log)
    /\ ~HasKey(hot_cache, CoordFar)
    /\ \A r \in 1..NumTasks : runs[r].pc = "done"

(***************************************************************************)
(* Claims about JudgeCorrectionFlow.process_and_correct, checked under     *)
(* SpecJudgeFair                                                           *)
(***************************************************************************)
\* the severity of this validation is critical or moderate
Regenerates(v) == v.severity \in {Some("critical"), Some("moderate")}

\* C30: whatever the validations say, a call of process_and_correct returns;
\* it asks the alpha lobe at most 1 + max_regenerations times; it returns
\* approved only with the latest response and a validation of that response
\* that is neither critical nor moderate; and when the response is still
\* critical or moderate after max_regenerations regenerations, it returns
\* unable_to_answer.
C30_Terminates ==
    /\ [](alpha_calls <= 1 + max_regenerations)
    /\ []((outcome # None /\ outcome[1].status = "approved")
            => LET last == validations[Len(validations)]
               IN  /\ outcome[1].response = Some(last.response)
                   /\ last.response = alpha_calls
                   /\ outcome[1].validation = Some([severity |-> last.severity])
                   /\ ~Regenerates(last))
    /\ []((jpc = "returned" /\ regeneration_count = max_regenerations
              /\ Regenerates(validations[Len(validations)]))
            => outcome[1].status = "unable_to_answer")
    /\ (jpc \in {"generating", "validating"}) ~> (jpc = "returned")

\* a call with max_regenerations = 2 has returned approved after two
\* regenerations, the alpha lobe having been asked three times
C30_Witness ==
    /\ jpc = "returned"
    /\ max_regenerations = 2
    /\ alpha_calls = 3
    /\ Len(validations) = 3
    /\ Regenerates(validations[1]) /\ Regenerates(validations[2])
    /\ outcome[1].status = "approved"

====
